---- MODULE Spec2Model ----
(***************************************************************************)
(* Model of the slab hash map backend of Open3D                            *)
(* (cpp/open3d/core/hashmap/CUDA/SlabHashBackend.h).                        *)
(*                                                                         *)
(* The orchestrator (Rehash, Insert, Activate, Find, Erase,                *)
(* GetActiveIndices, Clear, Size, InsertImpl, Allocate) is translated from *)
(* SlabHashBackend.h.  The kernels, the heap buffer and the slab node      *)
(* manager live in SlabHashBackendImpl.h / HashBackendBuffer.h /           *)
(* SlabNodeManager.h; they are modelled from their description in the      *)
(* design document (sections 3, 4.1-4.6).                                  *)
(*                                                                         *)
(* A batched call is one action.  The threads of one kernel launch are     *)
(* applied one at a time in a nondeterministically chosen order: each      *)
(* thread's probe-and-link is arbitrated by compare-and-swap, so every     *)
(* interleaving is equivalent to one such order.                           *)
(***************************************************************************)
EXTENDS Integers, Sequences, FiniteSets, TLC

\* ------------------------------------------------------------------ bounds
NumKeys == 2          \* keys are 1..NumKeys
NumValues == 2        \* values are 1..NumValues
MaxBatch == 2         \* longest batch of one call
MaxInitCap == 2       \* largest init_capacity of the constructor
MaxCap == 2           \* calls that would grow capacity_ past this are not issued
MaxBuckets == 4       \* largest bucket count (requested or grown to)
SlabCap == 1          \* entries per slab
PoolSize == 1         \* slab nodes of the node manager

\* ----------------------------------------------------------- basic domains
Keys == 1..NumKeys
Values == 1..NumValues

\* cudaMemset(.., 0xFF, ..): every 32-bit word reads as -1 (Int32 view of
\* 0xFFFFFFFF), the empty entry / end-of-chain marker.
EMPTY == -1

\* content of a device buffer that was allocated but never written
UNINIT == 0

\* number of value columns declared at construction (value_dsizes.size())
n_values_ == 1

Batches == UNION {[1..n -> Keys] : n \in 0..MaxBatch}

Min(S) == CHOOSE x \in S : \A y \in S : x <= y

Max(a, b) == IF a >= b THEN a ELSE b

Range(s) == {s[i] : i \in 1..Len(s)}

\* all orders in which n threads can take effect
Perms(n) == {f \in [1..n -> 1..n] : \A i, j \in 1..n : i # j => f[i] # f[j]}

\* all sequences enumerating the finite set S once
Enumerations(S) ==
  {f \in [1..Cardinality(S) -> S] : \A i, j \in 1..Cardinality(S) : i # j => f[i] # f[j]}

RECURSIVE TabulateOn(_, _)
TabulateOn(f, D) ==
  IF D = {} THEN << >>
  ELSE LET x == Min(D)
       IN  IF D = {x} THEN (x :> f[x]) ELSE (x :> f[x]) @@ TabulateOn(f, D \ {x})

\* the function f as an explicit table of its values
Tabulate(f) == TabulateOn(f, DOMAIN f)

\* Hash functor (template parameter); the identity on the small key domain
Hash(k) == k

\* bucket of a key: hash(key) mod bucket_count
Bucket(k, bc) == Hash(k) % bc

\* ---------------------------------------------------- float (IEEE binary32)
\* Insert and Rehash compute the average capacity per bucket, the bucket
\* count to grow to and the capacity to allocate in `float`.  A positive
\* float is the record [m, e] of value m * 2^e with a 24-bit significand
\* TwoTo23 <= m < TwoTo24; every operation rounds to nearest, ties to even.
TwoTo12 == 4096
TwoTo23 == 8388608
TwoTo24 == 16777216

RECURSIVE Pow2(_)
Pow2(k) == IF k = 0 THEN 1 ELSE 2 * Pow2(k - 1)

\* significand m (already 24 bits) rounded up or not, renormalised
RoundTo(m, e, up) ==
  IF ~up THEN [m |-> m, e |-> e]
  ELSE IF m + 1 = TwoTo24 THEN [m |-> TwoTo23, e |-> e + 1]
  ELSE [m |-> m + 1, e |-> e]

RECURSIVE ScaleUp(_, _)
ScaleUp(m, e) == IF m >= TwoTo23 THEN [m |-> m, e |-> e] ELSE ScaleUp(2 * m, e - 1)

RECURSIVE ExcessBits(_, _)
ExcessBits(n, k) == IF n \div Pow2(k) < TwoTo24 THEN k ELSE ExcessBits(n, k + 1)

\* float(n) for an integer n >= 1
FromInt(n) ==
  IF n < TwoTo24 THEN ScaleUp(n, 0)
  ELSE LET k == ExcessBits(n, 1)
           m == n \div Pow2(k)
           r == n % Pow2(k)
           h == Pow2(k - 1)
       IN  RoundTo(m, k, r > h \/ (r = h /\ m % 2 = 1))

RECURSIVE LongDiv(_, _, _, _)
\* `steps` more quotient bits of r / d after the bits q
LongDiv(q, r, d, steps) ==
  IF steps = 0 THEN <<q, r>>
  ELSE IF 2 * r >= d THEN LongDiv(2 * q + 1, 2 * r - d, d, steps - 1)
  ELSE LongDiv(2 * q, 2 * r, d, steps - 1)

\* x / y
FDiv(x, y) ==
  LET steps == IF x.m >= y.m THEN 23 ELSE 24
      qr == LongDiv(x.m \div y.m, x.m % y.m, y.m, steps)
  IN  RoundTo(qr[1], x.e - y.e - steps,
              2 * qr[2] > y.m \/ (2 * qr[2] = y.m /\ qr[1] % 2 = 1))

\* x * y, the 48-bit product formed from 12-bit halves
FMul(x, y) ==
  LET a == x.m \div TwoTo12
      b == x.m % TwoTo12
      c == y.m \div TwoTo12
      d == y.m % TwoTo12
      mid == a * d + b * c
      lo0 == b * d + (mid % TwoTo12) * TwoTo12
      lo == lo0 % TwoTo24
      hi == a * c + (mid \div TwoTo12) + (lo0 \div TwoTo24)
      m == 2 * hi + (lo \div TwoTo23)
      r == lo % TwoTo23
  IN  IF hi >= TwoTo23
      THEN RoundTo(hi, x.e + y.e + 24, lo > TwoTo23 \/ (lo = TwoTo23 /\ hi % 2 = 1))
      ELSE RoundTo(m, x.e + y.e + 23,
                   2 * r > TwoTo23 \/ (2 * r = TwoTo23 /\ m % 2 = 1))

\* int64_t(std::ceil(x))
CeilInt(x) ==
  IF x.e >= 0 THEN x.m * Pow2(x.e)
  ELSE IF 0 - x.e > 24 THEN 1
  ELSE (x.m + Pow2(0 - x.e) - 1) \div Pow2(0 - x.e)

\* float(capacity_) / float(bucket_count_)
avg_capacity_per_bucket(S) == FDiv(FromInt(S.capacity_), FromInt(S.bucket_count_))

\* -------------------------------------------------------------- slab store
EmptySlab == [kv |-> Tabulate([p \in 1..SlabCap |-> EMPTY]), next |-> EMPTY]

\* slab reference 0 is the bucket's head slab, n > 0 is node n of the pool
SlabAt(S, b, ref) == IF ref = 0 THEN S.head[b] ELSE S.pool[ref]

RECURSIVE Walk(_, _, _)
Walk(S, b, ref) ==
  LET s == SlabAt(S, b, ref)
  IN  IF s.next = EMPTY THEN <<ref>> ELSE <<ref>> \o Walk(S, b, s.next)

\* the slabs of bucket b's chain, head first
ChainRefs(S, b) == Walk(S, b, 0)

\* every entry position <<slab ref, lane>> of bucket b's chain in probe order
ChainPos(S, b) ==
  LET refs == ChainRefs(S, b)
  IN  [i \in 1..(Len(refs) * SlabCap) |->
         <<refs[((i - 1) \div SlabCap) + 1], ((i - 1) % SlabCap) + 1>>]

SlotAt(S, b, rp) == SlabAt(S, b, rp[1]).kv[rp[2]]

\* index into ChainPos of the entry holding key k, 0 when k is not linked
Lookup(S, k) ==
  LET b == Bucket(k, S.bucket_count_)
      ps == ChainPos(S, b)
      hits == {i \in 1..Len(ps) :
                 /\ SlotAt(S, b, ps[i]) # EMPTY
                 /\ S.key_buf[SlotAt(S, b, ps[i])] = k}
  IN  IF hits = {} THEN 0 ELSE Min(hits)

\* slot index linked for key k, EMPTY when k is not linked
SlotOf(S, k) ==
  LET b == Bucket(k, S.bucket_count_)
      i == Lookup(S, k)
  IN  IF i = 0 THEN EMPTY ELSE SlotAt(S, b, ChainPos(S, b)[i])

\* FindKernel, one thread: walk the chain read-only
FindKernel(S, k) ==
  [mask |-> SlotOf(S, k) # EMPTY, idx |-> SlotOf(S, k)]

\* slot indices linked in any bucket chain
ActiveSlots(S) ==
  UNION {{SlotAt(S, b, ChainPos(S, b)[i]) : i \in 1..Len(ChainPos(S, b))}
           : b \in 0..(S.bucket_count_ - 1)} \ {EMPTY}

\* keys with a live mapping
LiveKeys(S) == {k \in Keys : SlotOf(S, k) # EMPTY}

\* Size(): the heap top index
Size(S) == S.heap_top_

\* ------------------------------------------------------- Allocate / Free
\* Allocate(bucket_count, capacity): fresh heap buffer (top 0, contents
\* unwritten), fresh node manager, bucket heads memset to 0xFF
Allocate(bucket_count, capacity) ==
  [capacity_ |-> capacity,
   bucket_count_ |-> bucket_count,
   heap_top_ |-> 0,
   key_buf |-> Tabulate([s \in 0..(capacity - 1) |-> UNINIT]),
   val_buf |-> Tabulate([s \in 0..(capacity - 1) |-> UNINIT]),
   head |-> Tabulate([b \in 0..(bucket_count - 1) |-> EmptySlab]),
   pool |-> Tabulate([n \in 1..PoolSize |-> EmptySlab]),
   free |-> 1..PoolSize,
   fatal |-> FALSE]

\* ---------------------------------------------------------- insert kernels
PutEntry(S, b, rp, slot) ==
  IF rp[1] = 0
  THEN [S EXCEPT !.head[b].kv[rp[2]] = slot]
  ELSE [S EXCEPT !.pool[rp[1]].kv[rp[2]] = slot]

SetNext(S, b, ref, n) ==
  IF ref = 0
  THEN [S EXCEPT !.head[b].next = n]
  ELSE [S EXCEPT !.pool[ref].next = n]

\* SlabNodeManager: hand out a free node
AllocateSlab(S) == Min(S.free)

\* SlabNodeManager: take node n back, emptied
FreeSlab(S, n) ==
  [S EXCEPT !.free = @ \cup {n}, !.pool[n] = EmptySlab]

\* InsertKernelPass0: thread i takes slot prev_heap_top + i of the reserved
\* run, writes its key there and records the slot index
InsertKernelPass0(S, keys, prev_heap_top) ==
  [S |-> [S EXCEPT !.key_buf =
                     Tabulate([s \in DOMAIN S.key_buf |->
                                 IF s - prev_heap_top + 1 \in 1..Len(keys)
                                 THEN keys[s - prev_heap_top + 1]
                                 ELSE S.key_buf[s]]),
                   !.fatal = S.fatal \/ prev_heap_top + Len(keys) > S.capacity_],
   idx |-> Tabulate([i \in 1..Len(keys) |-> prev_heap_top + i - 1]),
   mask |-> Tabulate([i \in 1..Len(keys) |-> FALSE])]

\* Pass1 thread that, on finding its key linked, links the existing slot
\* once more in the first empty lane
Pass1ThreadRelink(S, k, slot) ==
  LET b == Bucket(k, S.bucket_count_)
      ps == ChainPos(S, b)
      hit == Lookup(S, k)
      empties == {i \in 1..Len(ps) : SlotAt(S, b, ps[i]) = EMPTY}
  IN  IF hit # 0
      THEN [S |-> IF empties = {} THEN S
                  ELSE PutEntry(S, b, ps[Min(empties)], SlotAt(S, b, ps[hit])),
            idx |-> SlotAt(S, b, ps[hit]), mask |-> TRUE]
      ELSE IF empties # {}
      THEN [S |-> PutEntry(S, b, ps[Min(empties)], slot), idx |-> slot, mask |-> TRUE]
      ELSE IF S.free = {}
      THEN [S |-> [S EXCEPT !.fatal = TRUE], idx |-> slot, mask |-> FALSE]
      ELSE LET n == AllocateSlab(S)
               T == [S EXCEPT !.free = @ \ {n}]
           IN  [S |-> PutEntry(SetNext(T, b, ps[Len(ps)][1], n), b, <<n, 1>>, slot),
                idx |-> slot, mask |-> TRUE]

\* InsertKernelPass1, one thread: probe the chain of the key's bucket; a key
\* already linked is a duplicate (existing slot, success); otherwise link the
\* reserved slot in the first empty lane, growing the chain by a slab node
\* when every lane is taken; an exhausted node pool is fatal
Pass1Thread(S, k, slot) ==
  LET b == Bucket(k, S.bucket_count_)
      ps == ChainPos(S, b)
      hit == Lookup(S, k)
      empties == {i \in 1..Len(ps) : SlotAt(S, b, ps[i]) = EMPTY}
  IN  IF hit # 0
      THEN [S |-> S, idx |-> SlotAt(S, b, ps[hit]), mask |-> TRUE]
      ELSE IF empties # {}
      THEN [S |-> PutEntry(S, b, ps[Min(empties)], slot), idx |-> slot, mask |-> TRUE]
      ELSE IF S.free = {}
      THEN [S |-> [S EXCEPT !.fatal = TRUE], idx |-> slot, mask |-> FALSE]
      ELSE LET n == AllocateSlab(S)
               T == [S EXCEPT !.free = @ \ {n}]
           IN  [S |-> PutEntry(SetNext(T, b, ps[Len(ps)][1], n), b, <<n, 1>>, slot),
                idx |-> slot, mask |-> TRUE]

RECURSIVE InsertKernelPass1(_, _, _, _)
\* InsertKernelPass1: the threads take effect in the order given; a fatal
\* error ends the launch
InsertKernelPass1(R, keys, order, j) ==
  IF j > Len(order) \/ R.S.fatal THEN R
  ELSE LET i == order[j]
           r == Pass1Thread(R.S, keys[i], R.idx[i])
       IN  InsertKernelPass1([S |-> r.S,
                              idx |-> [R.idx EXCEPT ![i] = r.idx],
                              mask |-> [R.mask EXCEPT ![i] = r.mask]],
                             keys, order, j + 1)

\* a Pass2 whose thread i writes its value at slot i of the heap and not at
\* the slot index it was given
InsertKernelPass2ByPosition(R, vals, n_values) ==
  IF n_values = 0 \/ R.S.fatal THEN {R}
  ELSE LET on == {i \in 1..Len(R.idx) : R.mask[i]}
       IN  {[S |-> [R.S EXCEPT !.val_buf =
                              Tabulate([s \in DOMAIN R.S.val_buf |->
                                          IF (s + 1) \in on THEN vals[s + 1]
                                          ELSE R.S.val_buf[s]])],
             idx |-> R.idx, mask |-> R.mask]}

\* InsertKernelPass2: every thread whose mask is set copies its value into
\* the value column at its slot index; threads sharing a slot race and any
\* one of them writes last
InsertKernelPass2(R, vals, n_values) ==
  IF n_values = 0 \/ R.S.fatal THEN {R}
  ELSE LET on == {i \in 1..Len(R.idx) : R.mask[i]}
           slots == {R.idx[i] : i \in on}
           W == {w \in [slots -> on] : \A s \in slots : R.idx[w[s]] = s}
       IN  {[S |-> [R.S EXCEPT !.val_buf =
                              Tabulate([s \in DOMAIN R.S.val_buf |->
                                          IF s \in slots THEN vals[w[s]]
                                          ELSE R.S.val_buf[s]])],
             idx |-> R.idx, mask |-> R.mask]
              : w \in W}

\* InsertImpl that forgets to advance heap_top_ past the reserved run
InsertImplNoBump(S, keys, n_cols, vals) ==
  IF Len(keys) = 0 THEN {[S |-> S, idx |-> << >>, mask |-> << >>]}
  ELSE LET P0 == InsertKernelPass0(S, keys, S.heap_top_)
           n_values == IF n_cols = n_values_ THEN n_values_ ELSE 0
       IN  UNION {InsertKernelPass2(InsertKernelPass1(P0, keys, order, 1), vals, n_values)
                    : order \in Perms(Len(keys))}

\* InsertImpl with the column-count test inverted: matching columns are
\* dropped
InsertImplNoValues(S, keys, n_cols, vals) ==
  IF Len(keys) = 0 THEN {[S |-> S, idx |-> << >>, mask |-> << >>]}
  ELSE LET prev_heap_top == S.heap_top_
           T == [S EXCEPT !.heap_top_ = prev_heap_top + Len(keys)]
           P0 == InsertKernelPass0(T, keys, prev_heap_top)
           n_values == IF n_cols # n_values_ THEN n_values_ ELSE 0
       IN  UNION {InsertKernelPass2(InsertKernelPass1(P0, keys, order, 1), vals, n_values)
                    : order \in Perms(Len(keys))}

\* InsertImpl that launches Pass0 and Pass2 but not the linking Pass1
InsertImplNoLink(S, keys, n_cols, vals) ==
  IF Len(keys) = 0 THEN {[S |-> S, idx |-> << >>, mask |-> << >>]}
  ELSE LET prev_heap_top == S.heap_top_
           T == [S EXCEPT !.heap_top_ = prev_heap_top + Len(keys)]
           P0 == InsertKernelPass0(T, keys, prev_heap_top)
           n_values == IF n_cols = n_values_ THEN n_values_ ELSE 0
       IN  InsertKernelPass2(P0, vals, n_values)

\* InsertImpl that hands Pass0 slot 0 as the start of the reserved run
InsertImplFromZero(S, keys, n_cols, vals) ==
  IF Len(keys) = 0 THEN {[S |-> S, idx |-> << >>, mask |-> << >>]}
  ELSE LET prev_heap_top == S.heap_top_
           T == [S EXCEPT !.heap_top_ = prev_heap_top + Len(keys)]
           P0 == InsertKernelPass0(T, keys, 0)
           n_values == IF n_cols = n_values_ THEN n_values_ ELSE 0
       IN  UNION {InsertKernelPass2(InsertKernelPass1(P0, keys, order, 1), vals, n_values)
                    : order \in Perms(Len(keys))}

\* InsertImpl that does not check the device error after the kernels
InsertImplIgnoresError(S, keys, n_cols, vals) ==
  IF Len(keys) = 0 THEN {[S |-> S, idx |-> << >>, mask |-> << >>]}
  ELSE LET prev_heap_top == S.heap_top_
           T == [S EXCEPT !.heap_top_ = prev_heap_top + Len(keys)]
           P0 == InsertKernelPass0(T, keys, prev_heap_top)
           n_values == IF n_cols = n_values_ THEN n_values_ ELSE 0
       IN  {[S |-> [r.S EXCEPT !.fatal = FALSE], idx |-> r.idx, mask |-> r.mask]
              : r \in UNION {InsertKernelPass2(InsertKernelPass1(P0, keys, order, 1),
                                                vals, n_values)
                               : order \in Perms(Len(keys))}}

\* InsertImpl that copies values whenever any column is supplied
InsertImplAnyColumns(S, keys, n_cols, vals) ==
  IF Len(keys) = 0 THEN {[S |-> S, idx |-> << >>, mask |-> << >>]}
  ELSE LET prev_heap_top == S.heap_top_
           T == [S EXCEPT !.heap_top_ = prev_heap_top + Len(keys)]
           P0 == InsertKernelPass0(T, keys, prev_heap_top)
           n_values == IF n_cols > 0 THEN n_values_ ELSE 0
       IN  UNION {InsertKernelPass2(InsertKernelPass1(P0, keys, order, 1), vals, n_values)
                    : order \in Perms(Len(keys))}

\* InsertImpl(input_keys, input_values_soa, .., count): n_cols is
\* input_values_soa.size()
InsertImpl(S, keys, n_cols, vals) ==
  IF Len(keys) = 0 THEN {[S |-> S, idx |-> << >>, mask |-> << >>]}
  ELSE LET prev_heap_top == S.heap_top_
           T == [S EXCEPT !.heap_top_ = prev_heap_top + Len(keys)]
           P0 == InsertKernelPass0(T, keys, prev_heap_top)
           n_values == IF n_cols = n_values_ THEN n_values_ ELSE 0
       IN  UNION {InsertKernelPass2(InsertKernelPass1(P0, keys, order, 1), vals, n_values)
                    : order \in Perms(Len(keys))}

\* ------------------------------------------------------------------ Rehash
\* GetActiveIndices: the scan appends each linked slot index once, in any
\* order, through the shared counter
GetActiveIndices(S) == Enumerations(ActiveSlots(S))

\* Rehash's gather: active_buf_indices has Size() elements of which
\* GetActiveIndices writes the first |live|; the elements behind them are
\* never written, so IndexGet reads the key buffer at an arbitrary index
\* there: any key comes back, with an indeterminate value
ActiveBatches(S) ==
  LET count == Size(S)
      L == Cardinality(ActiveSlots(S))
  IN  {[keys |-> Tabulate([j \in 1..count |->
                             IF j <= L THEN S.key_buf[e[j]] ELSE g[j - L]]),
        vals |-> Tabulate([j \in 1..count |->
                             IF j <= L THEN S.val_buf[e[j]] ELSE UNINIT])]
         : e \in GetActiveIndices(S), g \in [1..(count - L) -> Keys]}

\* capacity of a Rehash that doubles the scaled capacity
RehashCapacityDoubled(S, buckets, len) ==
  Max(2 * CeilInt(FMul(FromInt(buckets), avg_capacity_per_bucket(S))), len)

\* capacity Rehash allocates: the larger of ceil(buckets * average) and the
\* length of the gathered key tensor
RehashCapacity(S, buckets, len) ==
  Max(CeilInt(FMul(FromInt(buckets), avg_capacity_per_bucket(S))), len)

\* Rehash(buckets)
Rehash(S, buckets) ==
  LET count == Size(S)
      capacity(len) == RehashCapacity(S, buckets, len)
  IN  IF count = 0
      THEN {Allocate(buckets, capacity(0))}
      ELSE UNION {{r.S : r \in InsertImpl(Allocate(buckets, capacity(count)),
                                          a.keys, n_values_, a.vals)}
                    : a \in ActiveBatches(S)}
           \cup (IF count > Cardinality(ActiveSlots(S))
                 THEN {[S EXCEPT !.fatal = TRUE]} ELSE {})

\* bucket count Insert asks Rehash for
ExpectedBuckets(S, count) ==
  Max(S.bucket_count_ * 2,
      CeilInt(FDiv(FromInt(Size(S) + count), avg_capacity_per_bucket(S))))

\* Insert that also rehashes when the batch exactly fills the buffer
InsertRehashWhenFull(S, keys, n_cols, vals) ==
  LET new_size == Size(S) + Len(keys)
  IN  IF new_size >= S.capacity_
      THEN UNION {IF H.fatal THEN {[S |-> H, idx |-> << >>, mask |-> << >>]}
                  ELSE InsertImpl(H, keys, n_cols, vals)
                    : H \in Rehash(S, ExpectedBuckets(S, Len(keys)))}
      ELSE InsertImpl(S, keys, n_cols, vals)

\* Insert(input_keys, input_values_soa, .., count)
Insert(S, keys, n_cols, vals) ==
  LET new_size == Size(S) + Len(keys)
  IN  IF new_size > S.capacity_
      THEN UNION {IF H.fatal THEN {[S |-> H, idx |-> << >>, mask |-> << >>]}
                  ELSE InsertImpl(H, keys, n_cols, vals)
                    : H \in Rehash(S, ExpectedBuckets(S, Len(keys)))}
      ELSE InsertImpl(S, keys, n_cols, vals)

\* Activate that hands Insert one value column
ActivateWithColumn(S, keys) ==
  Insert(S, keys, n_values_, Tabulate([i \in 1..Len(keys) |-> 1]))

\* Activate(input_keys, .., count): Insert with no value columns
Activate(S, keys) == Insert(S, keys, 0, << >>)

\* ----------------------------------------------------------- erase kernels
RECURSIVE TrimTail(_, _)
\* an emptied tail slab goes back to the node manager
TrimTail(S, b) ==
  LET refs == ChainRefs(S, b)
      n == Len(refs)
  IN  IF n > 1 /\ \A p \in 1..SlabCap : S.pool[refs[n]].kv[p] = EMPTY
      THEN TrimTail(FreeSlab(SetNext(S, b, refs[n - 1], EMPTY), refs[n]), b)
      ELSE S

\* EraseKernelPass0, one thread: locate the key, record its slot index and
\* set the mask
EraseKernelPass0(S, keys) ==
  [buf_indices |-> [i \in 1..Len(keys) |-> SlotOf(S, keys[i])],
   mask |-> [i \in 1..Len(keys) |-> SlotOf(S, keys[i]) # EMPTY]]

\* Pass1 erase thread that unlinks the first entry of the bucket
Pass1EraseFirst(S, slot) ==
  LET b == Bucket(S.key_buf[slot], S.bucket_count_)
      ps == ChainPos(S, b)
      at == {i \in 1..Len(ps) : SlotAt(S, b, ps[i]) # EMPTY}
  IN  IF at = {} THEN S
      ELSE TrimTail(PutEntry(S, b, ps[Min(at)], EMPTY), b)

\* EraseKernelPass1, one thread: unlink the recorded entry from its slab
Pass1Erase(S, slot) ==
  LET b == Bucket(S.key_buf[slot], S.bucket_count_)
      ps == ChainPos(S, b)
      at == {i \in 1..Len(ps) : SlotAt(S, b, ps[i]) = slot}
  IN  IF at = {} THEN S
      ELSE TrimTail(PutEntry(S, b, ps[Min(at)], EMPTY), b)

RECURSIVE EraseKernelPass1(_, _, _, _)
EraseKernelPass1(S, P0, order, j) ==
  IF j > Len(order) THEN S
  ELSE LET i == order[j]
       IN  EraseKernelPass1(IF P0.mask[i] THEN Pass1Erase(S, P0.buf_indices[i]) ELSE S,
                            P0, order, j + 1)

\* Erase that gives the slots of the erased keys back to the heap
EraseReleasesSlots(S, keys) ==
  IF Len(keys) = 0 THEN {[S |-> S, mask |-> << >>]}
  ELSE LET P0 == EraseKernelPass0(S, keys)
           n == Cardinality({SlotOf(S, keys[i]) : i \in 1..Len(keys)} \ {EMPTY})
       IN  {[S |-> [EraseKernelPass1(S, P0, order, 1) EXCEPT !.heap_top_ = @ - n],
             mask |-> P0.mask]
              : order \in Perms(Len(keys))}

\* an Erase that hands the erased slots at the end of the heap back: the
\* heap top falls to just above the highest slot still linked
EraseRewindsHeap(S, keys) ==
  IF Len(keys) = 0 THEN {[S |-> S, mask |-> << >>]}
  ELSE LET P0 == EraseKernelPass0(S, keys)
       IN  {LET T == EraseKernelPass1(S, P0, order, 1)
            IN  [S |-> [T EXCEPT !.heap_top_ =
                          Cardinality({sl \in 0..(S.heap_top_ - 1) :
                                         \E a \in ActiveSlots(T) : a >= sl})],
                 mask |-> P0.mask]
              : order \in Perms(Len(keys))}

\* Erase(input_keys, output_masks, count): the mask is memset to 0 before
\* the kernels run
Erase(S, keys) ==
  IF Len(keys) = 0 THEN {[S |-> S, mask |-> << >>]}
  ELSE LET P0 == EraseKernelPass0(S, keys)
       IN  {[S |-> EraseKernelPass1(S, P0, order, 1), mask |-> P0.mask]
              : order \in Perms(Len(keys))}

\* Find that clears the mask but never launches FindKernel
FindNoKernel(S, keys, idx0) ==
  [idx |-> Tabulate([i \in 1..Len(keys) |-> idx0]),
   mask |-> Tabulate([i \in 1..Len(keys) |-> FALSE])]

\* Find(input_keys, output_buf_indices, output_masks, count); idx0 is what
\* the caller's index buffer held before the call
Find(S, keys, idx0) ==
  IF Len(keys) = 0 THEN [idx |-> << >>, mask |-> << >>]
  ELSE [idx |-> [i \in 1..Len(keys) |->
                   IF FindKernel(S, keys[i]).mask THEN FindKernel(S, keys[i]).idx ELSE idx0],
        mask |-> [i \in 1..Len(keys) |-> FindKernel(S, keys[i]).mask]]

\* Clear that resets the heap and the node manager but not the bucket heads
ClearKeepsHeads(S) ==
  [S EXCEPT !.heap_top_ = 0,
            !.pool = Tabulate([n \in 1..PoolSize |-> EmptySlab]),
            !.free = 1..PoolSize]

\* Clear that only resets the heap top
ClearHeapOnly(S) == [S EXCEPT !.heap_top_ = 0]

\* Clear that resets the heap and the bucket heads but not the node manager
ClearKeepsNodes(S) ==
  [S EXCEPT !.heap_top_ = 0,
            !.head = Tabulate([b \in 0..(S.bucket_count_ - 1) |-> EmptySlab])]

\* Clear that frees the buffers and allocates them again
ClearReallocates(S) == Allocate(S.bucket_count_, S.capacity_)

\* BucketSizes(): elems_per_bucket filled with 0, then one thread per heap
\* slot adds the slot to the count of the bucket of the key stored in it
BucketSizes(S) ==
  [b \in 0..(S.bucket_count_ - 1) |->
     Cardinality({s \in DOMAIN S.key_buf :
                    s < S.heap_top_ /\ Bucket(S.key_buf[s], S.bucket_count_) = b})]

\* Clear(): ResetHeap, bucket heads memset to 0xFF, node manager Reset
Clear(S) ==
  [S EXCEPT !.heap_top_ = 0,
            !.head = Tabulate([b \in 0..(S.bucket_count_ - 1) |-> EmptySlab]),
            !.pool = Tabulate([n \in 1..PoolSize |-> EmptySlab]),
            !.free = 1..PoolSize]

\* ------------------------------------------------------------------- state
VARIABLES
  capacity_,          \* DeviceHashBackend::capacity_
  bucket_count_,      \* SlabHashBackend::bucket_count_
  heap_top_,          \* *buffer_accessor_.heap_top_
  key_buf,            \* buffer_->GetKeyBuffer(), by slot index
  val_buf,            \* the value column, by slot index
  bucket_list_head_,  \* impl_.bucket_list_head_, by bucket
  node_pool,          \* slab nodes of node_mgr_
  node_free,          \* nodes node_mgr_ has not handed out
  fatal,              \* the process died in a device error
  last,               \* the finished call: its arguments and output buffers
  pre,                \* the backend as it was when that call started
  history,            \* per key: never inserted, inserted, or erased since
  run,                \* the call in flight: its kernels' threads and buffers
  owned               \* the device storage the backend holds, and how it was handled

vars == <<capacity_, bucket_count_, heap_top_, key_buf, val_buf,
          bucket_list_head_, node_pool, node_free, fatal, last, pre, history, run, owned>>

mapvars == <<capacity_, bucket_count_, heap_top_, key_buf, val_buf,
             bucket_list_head_, node_pool, node_free>>

Cur ==
  [capacity_ |-> capacity_, bucket_count_ |-> bucket_count_,
   heap_top_ |-> heap_top_, key_buf |-> key_buf, val_buf |-> val_buf,
   head |-> bucket_list_head_, pool |-> node_pool, free |-> node_free,
   fatal |-> fatal]

Install(T) ==
  /\ capacity_' = T.capacity_
  /\ bucket_count_' = T.bucket_count_
  /\ heap_top_' = T.heap_top_
  /\ key_buf' = T.key_buf
  /\ val_buf' = T.val_buf
  /\ bucket_list_head_' = T.head
  /\ node_pool' = T.pool
  /\ node_free' = T.free
  /\ fatal' = T.fatal

\* value stored for key k, UNINIT when k has no mapping
ValueOf(S, k) == IF SlotOf(S, k) = EMPTY THEN UNINIT ELSE S.val_buf[SlotOf(S, k)]

Call(op, keys, n_cols, vals, idx, mask, buckets) ==
  [op |-> op, keys |-> keys, n_cols |-> n_cols, vals |-> vals,
   idx |-> idx, mask |-> mask, buckets |-> buckets]

\* ------------------------------------------------ the storage the map owns
\* impl_.bucket_list_head_ and buffer_accessor_ are raw device allocations
\* made by Allocate and released by Free; each is "none" before the first
\* Allocate, "live" or "freed".  allocs and frees count the calls, misuse
\* collects what went wrong.
MaxRebuilds == 3              \* Allocate calls in the life of one backend

NoStorage ==
  [bucket_list_head_ |-> "none", buffer_accessor_ |-> "none",
   allocs |-> 0, frees |-> 0, misuse |-> {}, destroyed |-> FALSE]

Live(o) == o.bucket_list_head_ = "live" /\ o.buffer_accessor_ = "live"

\* Allocate(bucket_count, capacity): buffer_accessor_.Setup, Malloc of the
\* bucket heads; storage still held is overwritten and lost
AllocateStorage(o) ==
  [o EXCEPT !.bucket_list_head_ = "live", !.buffer_accessor_ = "live",
            !.allocs = @ + 1,
            !.misuse = @ \cup (IF o.bucket_list_head_ = "live" \/ o.buffer_accessor_ = "live"
                               THEN {"leak"} ELSE {})]

\* Free(): buffer_accessor_.Shutdown, MemoryManager::Free(bucket_list_head_)
FreeStorage(o) ==
  [o EXCEPT !.bucket_list_head_ = "freed", !.buffer_accessor_ = "freed",
            !.frees = @ + 1,
            !.misuse = @ \cup (IF Live(o) THEN {} ELSE {"double free"})]

\* a kernel or a memset that reads or writes the heap or the bucket heads
UseStorage(o) ==
  [o EXCEPT !.misuse = @ \cup (IF Live(o) THEN {} ELSE {"use after free"})]

\* SlabHashBackend(init_capacity, ..): Allocate
Constructed == AllocateStorage(NoStorage)

\* ~SlabHashBackend(): Free
DestroyStorage(o) == [FreeStorage(o) EXCEPT !.destroyed = TRUE]

\* a Rehash that allocates the new storage without releasing the old
RehashStorageNoFree(o, count) ==
  LET a == IF count > 0 THEN UseStorage(o) ELSE o
      c == AllocateStorage(a)
  IN  IF count > 0 THEN UseStorage(c) ELSE c

\* Rehash: GetActiveIndices and IndexGet (count > 0), Free, Allocate,
\* InsertImpl (count > 0)
RehashStorage(o, count) ==
  LET a == IF count > 0 THEN UseStorage(o) ELSE o
      c == AllocateStorage(FreeStorage(a))
  IN  IF count > 0 THEN UseStorage(c) ELSE c

\* a Clear that releases the bucket heads and the heap
ClearStorageFrees(o) == FreeStorage(o)

\* Clear: ResetHeap, memset of the bucket heads, node_mgr_->Reset()
ClearStorage(o) == UseStorage(o)

\* no call has finished since the caller last dropped its buffers
NoCall == Call("none", << >>, 0, << >>, << >>, << >>, 0)

\* no call is in flight
NoRun == [op |-> "none"]

\* what a caller's output index buffer holds before a call: no slot index
STALE == -2

WithinBounds(T) == T.capacity_ <= MaxCap /\ T.bucket_count_ <= MaxBuckets

\* a call can be issued: the process is alive, the previous call's buffers
\* are gone
Idle == ~fatal /\ last.op = "none" /\ run.op = "none"

\* SlabHashBackend(init_capacity, ..): Allocate(init_capacity * 2, init_capacity)
Init ==
  \E init_capacity \in 1..MaxInitCap :
    LET T == Allocate(init_capacity * 2, init_capacity)
    IN  /\ capacity_ = T.capacity_
        /\ bucket_count_ = T.bucket_count_
        /\ heap_top_ = T.heap_top_
        /\ key_buf = T.key_buf
        /\ val_buf = T.val_buf
        /\ bucket_list_head_ = T.head
        /\ node_pool = T.pool
        /\ node_free = T.free
        /\ fatal = FALSE
        /\ last = NoCall
        /\ pre = T
        /\ history = [k \in Keys |-> "never"]
        /\ owned = Constructed
        /\ run = NoRun

DoInsert ==
  /\ Idle
  /\ \E keys \in Batches :
       \E vals \in [1..Len(keys) -> Values] :
         \E r \in Insert(Cur, keys, n_values_, vals) :
           /\ WithinBounds(r.S)
           /\ Install(r.S)
           /\ last' = Call("Insert", keys, n_values_, vals, r.idx, r.mask, 0)
           /\ pre' = Cur
           /\ UNCHANGED <<run, owned>>
           /\ history' = [k \in Keys |-> IF k \in Range(keys) THEN "inserted" ELSE history[k]]

DoActivate ==
  /\ Idle
  /\ \E keys \in Batches :
       \E r \in Activate(Cur, keys) :
         /\ WithinBounds(r.S)
         /\ Install(r.S)
         /\ last' = Call("Activate", keys, 0, << >>, r.idx, r.mask, 0)
         /\ pre' = Cur
         /\ UNCHANGED <<run, owned>>
         /\ history' = [k \in Keys |-> IF k \in Range(keys) THEN "inserted" ELSE history[k]]

\* a Find whose kernel also unlinks the keys it finds
DoFindUnlinking ==
  /\ Idle
  /\ \E keys \in Batches :
       LET r == Find(Cur, keys, STALE)
       IN  \E e \in Erase(Cur, keys) :
             /\ Install(e.S)
             /\ last' = Call("Find", keys, 0, << >>, r.idx, r.mask, 0)
             /\ pre' = Cur
             /\ UNCHANGED <<history, run, owned>>

DoFind ==
  /\ Idle
  /\ \E keys \in Batches :
       LET r == Find(Cur, keys, STALE)
       IN  /\ last' = Call("Find", keys, 0, << >>, r.idx, r.mask, 0)
           /\ pre' = Cur
           /\ UNCHANGED <<mapvars, fatal, history, run, owned>>

DoErase ==
  /\ Idle
  /\ \E keys \in Batches :
       \E r \in Erase(Cur, keys) :
         /\ Install(r.S)
         /\ last' = Call("Erase", keys, 0, << >>, << >>, r.mask, 0)
         /\ pre' = Cur
         /\ UNCHANGED <<run, owned>>
         /\ history' = [k \in Keys |->
                          IF k \in Range(keys) /\ SlotOf(Cur, k) # EMPTY
                          THEN "erased" ELSE history[k]]

DoRehash ==
  /\ Idle
  /\ \E buckets \in 1..MaxBuckets :
       \E T \in Rehash(Cur, buckets) :
         /\ WithinBounds(T)
         /\ Install(T)
         /\ last' = Call("Rehash", << >>, 0, << >>, << >>, << >>, buckets)
         /\ pre' = Cur
         /\ UNCHANGED <<history, run, owned>>

DoClear ==
  /\ Idle
  /\ Install(Clear(Cur))
  /\ last' = Call("Clear", << >>, 0, << >>, << >>, << >>, 0)
  /\ pre' = Cur
  /\ UNCHANGED <<history, run, owned>>

\* the caller is done with the output buffers of the finished call
Release ==
  /\ ~fatal
  /\ last.op # "none"
  /\ last' = NoCall
  /\ pre' = Cur
  /\ UNCHANGED <<mapvars, fatal, history, run, owned>>

Next ==
  \/ DoInsert
  \/ DoActivate
  \/ DoFind
  \/ DoErase
  \/ DoRehash
  \/ DoClear
  \/ Release

Spec == Init /\ [][Next]_vars

TypeOK ==
  /\ capacity_ \in 1..MaxCap
  /\ bucket_count_ \in 1..MaxBuckets
  /\ heap_top_ \in Nat
  /\ fatal \in BOOLEAN

\* ------------------------------------------------- the sizes, at large scale
\* The same Insert / Rehash / Clear followed through capacity_,
\* bucket_count_ and heap_top_ only, for maps of millions of entries: every
\* batch consists of new, pairwise-distinct keys, so every reserved slot is
\* linked and the buffers' contents play no part in the sizes.
LargeBatch == 10000000        \* keys of a large batch; a large init_capacity
MaxLargeCap == 80000000       \* calls that would grow capacity_ past this are not issued
MaxSmallBuckets == 3          \* largest bucket count requested of Rehash directly

CurSizes ==
  [capacity_ |-> capacity_, bucket_count_ |-> bucket_count_, heap_top_ |-> heap_top_]

\* Rehash(buckets): count keys are gathered and inserted again
RehashSizes(S, buckets) ==
  [capacity_ |-> RehashCapacity(S, buckets, Size(S)),
   bucket_count_ |-> buckets,
   heap_top_ |-> Size(S)]

\* Insert(.., count): Rehash when Size() + count > capacity_, then InsertImpl
\* advances heap_top_ by count
InsertSizes(S, count) ==
  LET T == IF Size(S) + count > S.capacity_
           THEN RehashSizes(S, ExpectedBuckets(S, count))
           ELSE S
  IN  [T EXCEPT !.heap_top_ = @ + count]

InstallSizes(T) ==
  /\ capacity_' = T.capacity_
  /\ bucket_count_' = T.bucket_count_
  /\ heap_top_' = T.heap_top_
  \* slots reserved past the end of the buffers: the kernels write out of bounds
  /\ fatal' = (T.heap_top_ > T.capacity_)
  /\ UNCHANGED <<key_buf, val_buf, bucket_list_head_, node_pool, node_free,
                 last, pre, history, run, owned>>

SizesInit ==
  \E init_capacity \in {1, LargeBatch} :
    /\ capacity_ = init_capacity
    /\ bucket_count_ = init_capacity * 2
    /\ heap_top_ = 0
    /\ key_buf = << >>
    /\ val_buf = << >>
    /\ bucket_list_head_ = << >>
    /\ node_pool = << >>
    /\ node_free = {}
    /\ fatal = FALSE
    /\ last = NoCall
    /\ pre = [capacity_ |-> init_capacity, bucket_count_ |-> init_capacity * 2,
              heap_top_ |-> 0]
    /\ history = [k \in Keys |-> "never"]
    /\ owned = Constructed
    /\ run = NoRun

SizesInsert ==
  /\ ~fatal
  /\ \E count \in {LargeBatch, 2 * LargeBatch + 1} :
       LET T == InsertSizes(CurSizes, count)
       IN  T.capacity_ <= MaxLargeCap /\ InstallSizes(T)

SizesRehash ==
  /\ ~fatal
  /\ \E buckets \in 1..MaxSmallBuckets :
       LET T == RehashSizes(CurSizes, buckets)
       IN  T.capacity_ <= MaxLargeCap /\ InstallSizes(T)

SizesClear ==
  /\ ~fatal
  /\ InstallSizes([CurSizes EXCEPT !.heap_top_ = 0])

SizesNext ==
  \/ SizesInsert
  \/ SizesRehash
  \/ SizesClear

SpecSizes == SizesInit /\ [][SizesNext]_vars

\* ------------------------------------------- one bucket under contention
\* The same Insert / Erase / Clear on a freshly constructed
\* map, called with keys that all hash to bucket 0, so that the threads of a
\* batch contend for the same chain, the chain grows by slab nodes and the
\* node pool runs out.  Calls that would overflow capacity_ (and so rehash)
\* are not issued here.
PoolInitCap == 3              \* init_capacity of the constructor
NumPoolKeys == 3              \* number of colliding keys
MaxPoolBatch == 3             \* longest batch of one call

\* multiples of the constructor's bucket count init_capacity * 2
PoolKeys == {2 * PoolInitCap * j : j \in 1..NumPoolKeys}

PoolBatches == UNION {[1..n -> PoolKeys] : n \in 0..MaxPoolBatch}

PoolInit ==
  LET T == Allocate(PoolInitCap * 2, PoolInitCap)
  IN  /\ capacity_ = T.capacity_
      /\ bucket_count_ = T.bucket_count_
      /\ heap_top_ = T.heap_top_
      /\ key_buf = T.key_buf
      /\ val_buf = T.val_buf
      /\ bucket_list_head_ = T.head
      /\ node_pool = T.pool
      /\ node_free = T.free
      /\ fatal = FALSE
      /\ last = NoCall
      /\ pre = T
      /\ history = [k \in Keys |-> "never"]
      /\ owned = Constructed
      /\ run = NoRun

PoolInsert ==
  /\ Idle
  /\ \E keys \in PoolBatches :
       /\ Size(Cur) + Len(keys) <= capacity_
       /\ \E r \in Insert(Cur, keys, n_values_, [i \in 1..Len(keys) |-> 1]) :
            /\ Install(r.S)
            /\ last' = Call("Insert", keys, n_values_, [i \in 1..Len(keys) |-> 1],
                            r.idx, r.mask, 0)
            /\ pre' = Cur
            /\ UNCHANGED <<history, run, owned>>

PoolErase ==
  /\ Idle
  /\ \E keys \in PoolBatches :
       \E r \in Erase(Cur, keys) :
         /\ Install(r.S)
         /\ last' = Call("Erase", keys, 0, << >>, << >>, r.mask, 0)
         /\ pre' = Cur
         /\ UNCHANGED <<history, run, owned>>

PoolNext ==
  \/ PoolInsert
  \/ PoolErase
  \/ DoClear
  \/ Release

SpecPool == PoolInit /\ [][PoolNext]_vars

\* ------------------------------------------------------------------ claims
\* the call `op` has returned normally
Returned(op) == last.op = op /\ ~fatal

Distinct(keys) == \A i, j \in 1..Len(keys) : i # j => keys[i] # keys[j]

\* a Find of the single key k on the backend S
Found(S, k) == Find(S, <<k>>, STALE).mask[1]

\* no key of the finished call was in the map when the call started
AllAbsentBefore == \A i \in 1..Len(last.keys) : SlotOf(pre, last.keys[i]) = EMPTY

\* the finished call started with Size() + N > capacity_
Overflowed == Size(pre) + Len(last.keys) > pre.capacity_

\* C1: after an Insert of N pairwise-distinct keys, none present before, with
\* Size() + N <= capacity_, Find returns for each key mask = true and the slot
\* index Insert returned, and Size() has grown by exactly N.
C1_InsertThenFind ==
  (Returned("Insert") /\ Distinct(last.keys) /\ AllAbsentBefore /\ ~Overflowed)
    => /\ \A i \in 1..Len(last.keys) :
            /\ Find(Cur, last.keys, STALE).mask[i]
            /\ Find(Cur, last.keys, STALE).idx[i] = last.idx[i]
       /\ Size(Cur) = Size(pre) + Len(last.keys)

C1_Witness ==
  /\ Returned("Insert") /\ Len(last.keys) = 2 /\ Distinct(last.keys)
  /\ AllAbsentBefore /\ ~Overflowed
  /\ \A i \in 1..2 : Find(Cur, last.keys, STALE).idx[i] = last.idx[i]
  /\ Size(Cur) = Size(pre) + 2

\* C2: Insert of a key that is already present returns mask = true and the
\* slot index the key already had, and leaves Size() as it was.
C2_ReinsertKeepsSlotAndSize ==
  Returned("Insert")
    => /\ \A i \in 1..Len(last.keys) :
            SlotOf(pre, last.keys[i]) # EMPTY
              => last.mask[i] /\ last.idx[i] = SlotOf(pre, last.keys[i])
       /\ (Len(last.keys) > 0 /\ \A i \in 1..Len(last.keys) : SlotOf(pre, last.keys[i]) # EMPTY)
            => Size(Cur) = Size(pre)

\* C3: after an Insert or Activate that returned, output_masks[i] is true
\* exactly when key i has a live mapping, and then output_buf_indices[i] is
\* the slot index a Find of key i returns.
C3_InsertOutputContract ==
  (Returned("Insert") \/ Returned("Activate"))
    => \A i \in 1..Len(last.keys) :
         /\ last.mask[i] <=> Find(Cur, last.keys, STALE).mask[i]
         /\ last.mask[i] => last.idx[i] = Find(Cur, last.keys, STALE).idx[i]

C3_Witness ==
  /\ Returned("Insert") /\ Len(last.keys) = 1
  /\ SlotOf(pre, last.keys[1]) # EMPTY
  /\ last.mask[1]
  /\ last.idx[1] = SlotOf(pre, last.keys[1])
  /\ last.idx[1] # Size(pre)

\* C4 as stated: after an Insert with the declared number of value columns,
\* for every key i absent before the call whose mask is true the value column
\* holds the input value of i at output_buf_indices[i].
C4_EveryFreshKeyHoldsItsValue ==
  (Returned("Insert") /\ last.n_cols = n_values_)
    => \A i \in 1..Len(last.keys) :
         (last.mask[i] /\ SlotOf(pre, last.keys[i]) = EMPTY)
           => val_buf[last.idx[i]] = last.vals[i]

\* C4 amended: the same for every such key that occurs once in the batch;
\* and when the call did not rehash, no value slot other than the slots
\* returned for the batch has changed.
C4_ScatterValues ==
  (Returned("Insert") /\ last.n_cols = n_values_)
    => /\ \A i \in 1..Len(last.keys) :
            (/\ last.mask[i]
             /\ SlotOf(pre, last.keys[i]) = EMPTY
             /\ \A j \in 1..Len(last.keys) : j # i => last.keys[j] # last.keys[i])
              => val_buf[last.idx[i]] = last.vals[i]
       /\ ~Overflowed
            => \A s \in DOMAIN val_buf :
                 s \notin Range(last.idx) => val_buf[s] = pre.val_buf[s]

C4_Witness ==
  /\ Returned("Insert") /\ last.n_cols = n_values_ /\ Len(last.keys) = 2
  /\ Distinct(last.keys) /\ AllAbsentBefore /\ ~Overflowed
  /\ last.vals[1] # last.vals[2]
  /\ val_buf[last.idx[1]] = last.vals[1]
  /\ val_buf[last.idx[2]] = last.vals[2]

\* C5: in every reachable state a Find of a key that was never passed to
\* Insert or Activate returns mask = false.
C5_NeverInsertedNotFound ==
  \A k \in Keys : history[k] = "never" => ~Found(Cur, k)

\* C6: Erase of a present key returns mask = true and the key is not found
\* from then on until it is inserted again; Erase of an absent key returns
\* mask = false, and an Erase of absent keys only leaves the map as it was.
C6_EraseContract ==
  /\ Returned("Erase")
       => /\ \A i \in 1..Len(last.keys) :
               IF SlotOf(pre, last.keys[i]) # EMPTY
               THEN last.mask[i] /\ ~Found(Cur, last.keys[i])
               ELSE ~last.mask[i]
          /\ AllAbsentBefore => Cur = pre
  /\ \A k \in Keys : history[k] = "erased" => ~Found(Cur, k)

\* C7: a Rehash that returned has kept exactly the keys that were live, each
\* with its value, and Size().
C7_RehashPreserves ==
  Returned("Rehash")
    => /\ \A k \in Keys :
            /\ SlotOf(Cur, k) # EMPTY <=> SlotOf(pre, k) # EMPTY
            /\ ValueOf(Cur, k) = ValueOf(pre, k)
       /\ Size(Cur) = Size(pre)

\* C8: right after Clear, Size() is 0 and no key inserted before is found.
C8_ClearEmpties ==
  last.op = "Clear"
    => /\ Size(Cur) = 0
       /\ \A k \in Keys : history[k] # "never" => ~Found(Cur, k)

C8_Witness ==
  /\ last.op = "Clear"
  /\ Size(pre) > 0
  /\ \E k \in Keys : history[k] = "inserted" /\ Found(pre, k) /\ ~Found(Cur, k)

\* C9: an Insert of N distinct new keys with Size() + N > capacity_ grows the
\* map: capacity_ is larger afterwards, Size() is the old Size() + N, every
\* key present before and every key of the batch is found, and a key never
\* inserted is not found.
C9_AutoGrow ==
  (Returned("Insert") /\ Distinct(last.keys) /\ AllAbsentBefore /\ Overflowed)
    => /\ capacity_ > pre.capacity_
       /\ Size(Cur) = Size(pre) + Len(last.keys)
       /\ \A k \in Keys :
            (SlotOf(pre, k) # EMPTY \/ k \in Range(last.keys)) => Found(Cur, k)
       /\ \A k \in Keys : history[k] = "never" => ~Found(Cur, k)

\* C10: in every reachable state heap_top_ <= capacity_, and every slot index
\* an Insert or Activate that returned handed out is in 0..capacity_ - 1.
C10_HeapTopWithinCapacity ==
  /\ heap_top_ <= capacity_
  /\ (Returned("Insert") \/ Returned("Activate"))
       => \A i \in 1..Len(last.idx) : last.idx[i] \in 0..(capacity_ - 1)

\* --------------------------------------------- one call, thread by thread
\* Insert and Erase on the freshly constructed map of the previous section,
\* with keys of bucket 0, followed through the steps of the host code and of
\* the threads of each kernel.  A thread of Pass1 probes its chain, then tries to take the lane
\* (or to link the node) it saw with one compare-and-swap, and probes again
\* when another thread got there first.  Calls that would overflow capacity_
\* are not issued here.
MaxStepBatch == 2             \* longest batch of one call

StepBatches == UNION {[1..n -> PoolKeys] : n \in 1..MaxStepBatch}

Threads(R) == 1..Len(R.keys)

\* kernels whose threads run as soon as the call has launched anything
LaunchedAnyOrder(R, kernel) == R.phase \in {"pass0", "pass1", "pass2"}

\* kernels launched into one stream run one after the other: a thread of
\* `kernel` runs only while `kernel` is the one running
Launched(R, kernel) == R.phase = kernel

KernelDone(R) ==
  \/ R.op = "Insert" /\ R.phase = "pass0" /\ R.p0 = Threads(R)
  \/ R.op = "Insert" /\ R.phase = "pass1" /\ \A i \in Threads(R) : R.pc[i] = "done"
  \/ R.op = "Insert" /\ R.phase = "pass2" /\ R.p2 = Threads(R)
  \/ R.op = "Erase" /\ R.phase = "pass0" /\ R.p0 = Threads(R)
  \/ R.op = "Erase" /\ R.phase = "pass1" /\ R.p1 = Threads(R)

\* Insert(.., count) with count > 0 and Size() + count <= capacity_
BeginInsert ==
  /\ Idle
  /\ \E keys \in StepBatches :
       /\ Size(Cur) + Len(keys) <= capacity_
       /\ run' = [op |-> "Insert", phase |-> "reserve", keys |-> keys,
                  vals |-> [i \in 1..Len(keys) |-> i],
                  prev |-> heap_top_,
                  idx |-> [i \in 1..Len(keys) |-> STALE],
                  mask |-> [i \in 1..Len(keys) |-> FALSE],
                  p0 |-> {}, p1 |-> {}, p2 |-> {}, lost |-> {},
                  pc |-> [i \in 1..Len(keys) |-> "probe"],
                  tgt |-> [i \in 1..Len(keys) |-> <<0, 0>>]]
  /\ pre' = Cur
  /\ UNCHANGED <<mapvars, fatal, last, history, owned>>

\* a reservation that starts from 0 instead of the heap top it read
ReserveHeapFromZero ==
  /\ run.op = "Insert" /\ run.phase = "reserve"
  /\ heap_top_' = Len(run.keys)
  /\ run' = [run EXCEPT !.phase = "pass0", !.prev = 0]
  /\ UNCHANGED <<capacity_, bucket_count_, key_buf, val_buf, bucket_list_head_,
                 node_pool, node_free, fatal, last, pre, history, owned>>

\* InsertImpl: heap top = prev_heap_top + count, then the first launch
ReserveHeap ==
  /\ run.op = "Insert" /\ run.phase = "reserve"
  /\ heap_top_' = run.prev + Len(run.keys)
  /\ run' = [run EXCEPT !.phase = "pass0"]
  /\ UNCHANGED <<capacity_, bucket_count_, key_buf, val_buf, bucket_list_head_,
                 node_pool, node_free, fatal, last, pre, history, owned>>

\* a Pass0 whose threads take the reserved slots in the order they arrive
Pass0StepArrivalOrder ==
  /\ run.op = "Insert" /\ Launched(run, "pass0") /\ ~fatal
  /\ \E i \in Threads(run) \ run.p0 :
       /\ key_buf' = [key_buf EXCEPT ![run.prev + Cardinality(run.p0)] = run.keys[i]]
       /\ run' = [run EXCEPT !.idx[i] = run.prev + Cardinality(run.p0), !.p0 = @ \cup {i}]
  /\ UNCHANGED <<capacity_, bucket_count_, heap_top_, val_buf, bucket_list_head_,
                 node_pool, node_free, fatal, last, pre, history, owned>>

\* InsertKernelPass0, thread i
Pass0Step ==
  /\ run.op = "Insert" /\ Launched(run, "pass0") /\ ~fatal
  /\ \E i \in Threads(run) \ run.p0 :
       /\ key_buf' = [key_buf EXCEPT ![run.prev + i - 1] = run.keys[i]]
       /\ run' = [run EXCEPT !.idx[i] = run.prev + i - 1, !.p0 = @ \cup {i}]
  /\ UNCHANGED <<capacity_, bucket_count_, heap_top_, val_buf, bucket_list_head_,
                 node_pool, node_free, fatal, last, pre, history, owned>>

\* the stream moves on to the next kernel when every thread of the running
\* one has finished
NextKernel ==
  /\ run.op \in {"Insert", "Erase"} /\ ~fatal
  /\ run.phase \in {"pass0", "pass1"}
  /\ ~(run.op = "Erase" /\ run.phase = "pass1")
  /\ KernelDone(run)
  /\ run' = [run EXCEPT !.phase = IF @ = "pass0" THEN "pass1" ELSE "pass2"]
  /\ UNCHANGED <<mapvars, fatal, last, pre, history, owned>>

\* InsertKernelPass1, thread i probes: its key is linked (duplicate), or it
\* picks the first empty lane, or it takes a node to grow the chain
Pass1Probe(S, R, i) ==
  LET k == R.keys[i]
      b == Bucket(k, S.bucket_count_)
      ps == ChainPos(S, b)
      hit == Lookup(S, k)
      empties == {j \in 1..Len(ps) : SlotAt(S, b, ps[j]) = EMPTY}
  IN  IF hit # 0
      THEN [S |-> S,
            R |-> [R EXCEPT !.p1 = @ \cup {i}, !.idx[i] = SlotAt(S, b, ps[hit]), !.mask[i] = TRUE,
                            !.pc[i] = "done"]]
      ELSE IF empties # {}
      THEN [S |-> S, R |-> [R EXCEPT !.p1 = @ \cup {i}, !.tgt[i] = ps[Min(empties)], !.pc[i] = "cas"]]
      ELSE IF S.free = {}
      THEN [S |-> [S EXCEPT !.fatal = TRUE],
            R |-> [R EXCEPT !.p1 = @ \cup {i}, !.mask[i] = FALSE, !.pc[i] = "done"]]
      ELSE [S |-> [S EXCEPT !.free = @ \ {AllocateSlab(S)}],
            R |-> [R EXCEPT !.p1 = @ \cup {i}, !.tgt[i] = <<AllocateSlab(S), ps[Len(ps)][1]>>,
                            !.pc[i] = "link"]]

\* thread i whose compare-and-swap fails spins on the lane it saw
Pass1CasNoReprobe(S, R, i) ==
  LET b == Bucket(R.keys[i], S.bucket_count_)
  IN  IF SlotAt(S, b, R.tgt[i]) = EMPTY
      THEN [S |-> PutEntry(S, b, R.tgt[i], R.idx[i]),
            R |-> [R EXCEPT !.mask[i] = TRUE, !.pc[i] = "done"]]
      ELSE [S |-> S, R |-> [R EXCEPT !.lost = @ \cup {i}]]

\* thread i compare-and-swaps its slot index into the lane it saw empty
Pass1Cas(S, R, i) ==
  LET b == Bucket(R.keys[i], S.bucket_count_)
  IN  IF SlotAt(S, b, R.tgt[i]) = EMPTY
      THEN [S |-> PutEntry(S, b, R.tgt[i], R.idx[i]),
            R |-> [R EXCEPT !.mask[i] = TRUE, !.pc[i] = "done"]]
      ELSE [S |-> S, R |-> [R EXCEPT !.pc[i] = "probe", !.lost = @ \cup {i}]]

\* thread i compare-and-swaps its node into the next pointer of the tail it
\* saw; a node that lost goes back to the node manager
Pass1Link(S, R, i) ==
  LET b == Bucket(R.keys[i], S.bucket_count_)
      n == R.tgt[i][1]
      tail == R.tgt[i][2]
  IN  IF SlabAt(S, b, tail).next = EMPTY
      THEN [S |-> SetNext(S, b, tail, n), R |-> [R EXCEPT !.pc[i] = "probe"]]
      ELSE [S |-> FreeSlab(S, n),
            R |-> [R EXCEPT !.pc[i] = "probe", !.lost = @ \cup {i}]]

Pass1ProbeStep ==
  /\ run.op = "Insert" /\ Launched(run, "pass1") /\ ~fatal
  /\ \E i \in Threads(run) :
       /\ run.pc[i] = "probe"
       /\ Install(Pass1Probe(Cur, run, i).S)
       /\ run' = Pass1Probe(Cur, run, i).R
  /\ UNCHANGED <<last, pre, history, owned>>

Pass1CasStep ==
  /\ run.op = "Insert" /\ Launched(run, "pass1") /\ ~fatal
  /\ \E i \in Threads(run) :
       /\ run.pc[i] = "cas"
       /\ Install(Pass1Cas(Cur, run, i).S)
       /\ run' = Pass1Cas(Cur, run, i).R
  /\ UNCHANGED <<last, pre, history, owned>>

Pass1LinkStep ==
  /\ run.op = "Insert" /\ Launched(run, "pass1") /\ ~fatal
  /\ \E i \in Threads(run) :
       /\ run.pc[i] = "link"
       /\ Install(Pass1Link(Cur, run, i).S)
       /\ run' = Pass1Link(Cur, run, i).R
  /\ UNCHANGED <<last, pre, history, owned>>

\* InsertKernelPass2, thread i: a thread whose mask is set copies its value
\* to its slot
Pass2Step ==
  /\ run.op = "Insert" /\ Launched(run, "pass2") /\ ~fatal
  /\ \E i \in Threads(run) \ run.p2 :
       /\ val_buf' = IF run.mask[i] THEN [val_buf EXCEPT ![run.idx[i]] = run.vals[i]]
                     ELSE val_buf
       /\ run' = [run EXCEPT !.p2 = @ \cup {i}]
  /\ UNCHANGED <<capacity_, bucket_count_, heap_top_, key_buf, bucket_list_head_,
                 node_pool, node_free, fatal, last, pre, history, owned>>

\* cuda::Synchronize(); OPEN3D_CUDA_CHECK(cudaGetLastError()): the call is over
EndInsert ==
  /\ run.op = "Insert"
  /\ fatal \/ (run.phase = "pass2" /\ KernelDone(run))
  /\ last' = Call("Insert", run.keys, n_values_, run.vals, run.idx, run.mask, 0)
  /\ run' = NoRun
  /\ UNCHANGED <<mapvars, fatal, pre, history, owned>>

\* Erase(.., count) with count > 0: masks memset to 0, buf_indices malloc'ed
BeginErase ==
  /\ Idle
  /\ \E keys \in StepBatches :
       run' = [op |-> "Erase", phase |-> "pass0", keys |-> keys,
               buf_indices |-> [i \in 1..Len(keys) |-> STALE],
               mask |-> [i \in 1..Len(keys) |-> FALSE],
               p0 |-> {}, p1 |-> {}]
  /\ pre' = Cur
  /\ UNCHANGED <<mapvars, fatal, last, history, owned>>

\* EraseKernelPass0, thread i
ErasePass0Step ==
  /\ run.op = "Erase" /\ Launched(run, "pass0")
  /\ \E i \in Threads(run) \ run.p0 :
       run' = [run EXCEPT !.buf_indices[i] = SlotOf(Cur, run.keys[i]),
                          !.mask[i] = (SlotOf(Cur, run.keys[i]) # EMPTY),
                          !.p0 = @ \cup {i}]
  /\ UNCHANGED <<mapvars, fatal, last, pre, history, owned>>

\* EraseKernelPass1, thread i
ErasePass1Step ==
  /\ run.op = "Erase" /\ Launched(run, "pass1")
  /\ \E i \in Threads(run) \ run.p1 :
       /\ Install(IF run.mask[i] THEN Pass1Erase(Cur, run.buf_indices[i]) ELSE Cur)
       /\ run' = [run EXCEPT !.p1 = @ \cup {i}]
  /\ UNCHANGED <<last, pre, history, owned>>

EndErase ==
  /\ run.op = "Erase" /\ run.phase = "pass1" /\ KernelDone(run)
  /\ last' = Call("Erase", run.keys, 0, << >>, << >>, run.mask, 0)
  /\ run' = NoRun
  /\ UNCHANGED <<mapvars, fatal, pre, history, owned>>

InsertStepsNext ==
  \/ BeginInsert
  \/ ReserveHeap
  \/ Pass0Step
  \/ NextKernel
  \/ Pass1ProbeStep
  \/ Pass1CasStep
  \/ Pass1LinkStep
  \/ Pass2Step
  \/ EndInsert
  \/ PoolErase
  \/ Release

SpecInsertSteps == PoolInit /\ [][InsertStepsNext]_vars

\* batches whose keys fall into two buckets: the colliding keys and one key
\* of bucket 1
MixedKeys == PoolKeys \cup {1}

MixedBatches == UNION {[1..n -> MixedKeys] : n \in 1..MaxStepBatch}

\* Insert(.., count) with count > 0 and Size() + count <= capacity_
BeginInsertMixed ==
  /\ Idle
  /\ \E keys \in MixedBatches :
       /\ Size(Cur) + Len(keys) <= capacity_
       /\ run' = [op |-> "Insert", phase |-> "reserve", keys |-> keys,
                  vals |-> [i \in 1..Len(keys) |-> i],
                  prev |-> heap_top_,
                  idx |-> [i \in 1..Len(keys) |-> STALE],
                  mask |-> [i \in 1..Len(keys) |-> FALSE],
                  p0 |-> {}, p1 |-> {}, p2 |-> {}, lost |-> {},
                  pc |-> [i \in 1..Len(keys) |-> "probe"],
                  tgt |-> [i \in 1..Len(keys) |-> <<0, 0>>]]
  /\ pre' = Cur
  /\ UNCHANGED <<mapvars, fatal, last, history, owned>>

InsertMixedNext ==
  \/ BeginInsertMixed
  \/ ReserveHeap
  \/ Pass0Step
  \/ NextKernel
  \/ Pass1ProbeStep
  \/ Pass1CasStep
  \/ Pass1LinkStep
  \/ Pass2Step
  \/ EndInsert
  \/ Release

SpecInsertMixed == PoolInit /\ [][InsertMixedNext]_vars

\* the threads of the running kernel and the host are scheduled fairly
SpecInsertStepsFair == SpecInsertSteps /\ WF_vars(InsertStepsNext)

EraseStepsNext ==
  \/ PoolInsert
  \/ BeginErase
  \/ ErasePass0Step
  \/ NextKernel
  \/ ErasePass1Step
  \/ EndErase
  \/ Release

SpecEraseSteps == PoolInit /\ [][EraseStepsNext]_vars

\* ------------------------------------- GetActiveIndices, thread by thread
\* The kernel runs one group of threads per bucket; the group of bucket b
\* walks b's chain and, for every linked slot, takes the next position of
\* the output with atomicAdd on the shared counter and writes the slot there.

\* an add on the counter that does not store its result
atomicAddNotStored(count, v) == [old |-> count, new |-> count]

\* atomicAdd(count, v): the value before the add is returned, the sum stored
atomicAdd(count, v) == [old |-> count, new |-> count + v]

\* positions of bucket b's chain that hold a slot, beyond position `from`
LiveAfter(S, b, from) ==
  {j \in (from + 1)..Len(ChainPos(S, b)) : SlotAt(S, b, ChainPos(S, b)[j]) # EMPTY}

\* the finished call `op` with its output index buffer and returned count
CallRet(op, idx, ret) ==
  [op |-> op, keys |-> << >>, n_cols |-> 0, vals |-> << >>,
   idx |-> idx, mask |-> << >>, buckets |-> 0, ret |-> ret]

\* Insert(.., count) of a batch that fits: no Rehash
ScanInsert ==
  /\ Idle
  /\ \E keys \in Batches :
       /\ Size(Cur) + Len(keys) <= capacity_
       /\ \E r \in Insert(Cur, keys, n_values_, [i \in 1..Len(keys) |-> 1]) :
            /\ Install(r.S)
            /\ last' = Call("Insert", keys, n_values_, [i \in 1..Len(keys) |-> 1],
                            r.idx, r.mask, 0)
            /\ pre' = Cur
            /\ UNCHANGED <<run, owned>>
            /\ history' = [k \in Keys |-> IF k \in Range(keys) THEN "inserted" ELSE history[k]]

\* GetActiveIndices(output_buf_indices): the counter is allocated and set to
\* 0; the caller's buffer has room for capacity_ indices
BeginGetActive ==
  /\ Idle
  /\ run' = [op |-> "GetActiveIndices", count |-> 0,
             out |-> [p \in 1..capacity_ |-> STALE],
             scan |-> [b \in 0..(bucket_count_ - 1) |-> 0],
             pend |-> [b \in 0..(bucket_count_ - 1) |-> << >>]]
  /\ pre' = Cur
  /\ UNCHANGED <<mapvars, fatal, last, history, owned>>

\* GetActiveIndicesKernel, bucket b: the next linked slot of the chain is
\* reached and a position of the output is taken
ScanClaimStep ==
  /\ run.op = "GetActiveIndices"
  /\ \E b \in 0..(bucket_count_ - 1) :
       /\ run.pend[b] = << >>
       /\ LiveAfter(Cur, b, run.scan[b]) # {}
       /\ LET r == atomicAdd(run.count, 1)
          IN  run' = [run EXCEPT !.count = r.new,
                                 !.scan[b] = Min(LiveAfter(Cur, b, run.scan[b])),
                                 !.pend[b] = <<r.old>>]
  /\ UNCHANGED <<mapvars, fatal, last, pre, history, owned>>

\* GetActiveIndicesKernel, bucket b: the slot is written at the position taken
ScanWriteStep ==
  /\ run.op = "GetActiveIndices"
  /\ \E b \in 0..(bucket_count_ - 1) :
       /\ run.pend[b] # << >>
       /\ run' = [run EXCEPT !.out[run.pend[b][1] + 1] =
                                SlotAt(Cur, b, ChainPos(Cur, b)[run.scan[b]]),
                             !.pend[b] = << >>]
  /\ UNCHANGED <<mapvars, fatal, last, pre, history, owned>>

\* cuda::Synchronize(); MemcpyToHost(&ret, count); return ret
EndGetActive ==
  /\ run.op = "GetActiveIndices"
  /\ \A b \in 0..(bucket_count_ - 1) :
       run.pend[b] = << >> /\ LiveAfter(Cur, b, run.scan[b]) = {}
  /\ last' = CallRet("GetActiveIndices", run.out, run.count)
  /\ run' = NoRun
  /\ UNCHANGED <<mapvars, fatal, pre, history, owned>>

ScanNext ==
  \/ ScanInsert
  \/ DoErase
  \/ BeginGetActive
  \/ ScanClaimStep
  \/ ScanWriteStep
  \/ EndGetActive
  \/ Release

SpecScan == Init /\ [][ScanNext]_vars

\* ----------------------------------------------------- Rehash, step by step
\* a Rehash that releases the old storage before it has read it
RehashFreesFirst(count) ==
  IF count > 0 THEN <<"free", "collect", "gather", "allocate", "reinsert">>
  ELSE <<"free", "allocate">>

\* the statements of Rehash in program order; the three inside
\* `if (count > 0)` are skipped for an empty heap
RehashOrder(count) ==
  IF count > 0 THEN <<"collect", "gather", "free", "allocate", "reinsert">>
  ELSE <<"free", "allocate">>

\* the host thread of the Rehash in flight stands before statement `step`
RehashAt(step) ==
  /\ run.op = "Rehash" /\ ~fatal
  /\ Len(run.log) < Len(RehashOrder(run.count))
  /\ RehashOrder(run.count)[Len(run.log) + 1] = step

\* Rehash(buckets): count = Size()
BeginRehash ==
  /\ Idle
  /\ \E buckets \in 1..MaxBuckets :
       /\ WithinBounds(Allocate(buckets, RehashCapacity(Cur, buckets, Size(Cur))))
       /\ run' = [op |-> "Rehash", buckets |-> buckets, count |-> Size(Cur),
                  log |-> << >>, store |-> "old", read_freed |-> FALSE,
                  fresh |-> FALSE,
                  idx |-> << >>, keys |-> << >>, vals |-> << >>]
  /\ pre' = Cur
  /\ UNCHANGED <<mapvars, fatal, last, history, owned>>

\* GetActiveIndices into a tensor of `count` indices; the returned number of
\* indices written is not looked at, the rest of the tensor stays as
\* allocated
RehashCollect ==
  /\ RehashAt("collect")
  /\ \E e \in GetActiveIndices(Cur) :
       run' = [run EXCEPT !.idx = [j \in 1..run.count |->
                                     IF j <= Len(e) THEN e[j] ELSE STALE],
                          !.read_freed = @ \/ (run.store = "freed"),
                          !.log = Append(@, "collect")]
  /\ UNCHANGED <<mapvars, fatal, last, pre, history, owned>>

\* IndexGet of the key buffer and the value buffers; an index that was never
\* written reads anywhere: some key comes back, or the device faults
RehashGather ==
  /\ RehashAt("gather")
  /\ \/ /\ \E g \in [{j \in 1..run.count : run.idx[j] = STALE} -> Keys] :
             run' = [run EXCEPT !.keys = [j \in 1..run.count |->
                                            IF run.idx[j] = STALE THEN g[j]
                                            ELSE key_buf[run.idx[j]]],
                                !.vals = [j \in 1..run.count |->
                                            IF run.idx[j] = STALE THEN UNINIT
                                            ELSE val_buf[run.idx[j]]],
                                !.read_freed = @ \/ (run.store = "freed"),
                                !.log = Append(@, "gather")]
          /\ UNCHANGED fatal
     \/ /\ \E j \in 1..run.count : run.idx[j] = STALE
        /\ fatal' = TRUE
        /\ run' = [run EXCEPT !.read_freed = @ \/ (run.store = "freed")]
  /\ UNCHANGED <<mapvars, last, pre, history, owned>>

\* Free(): the heap and the bucket heads are released
RehashFree ==
  /\ RehashAt("free")
  /\ run' = [run EXCEPT !.store = "freed", !.log = Append(@, "free")]
  /\ UNCHANGED <<mapvars, fatal, last, pre, history, owned>>

\* Allocate(buckets, max(ceil(buckets * avg_capacity_per_bucket), length of
\* the gathered keys))
RehashAllocate ==
  /\ RehashAt("allocate")
  /\ Install(Allocate(run.buckets, RehashCapacity(Cur, run.buckets, Len(run.keys))))
  /\ run' = [run EXCEPT !.store = "new", !.log = Append(@, "allocate")]
  /\ UNCHANGED <<last, pre, history, owned>>

\* InsertImpl of the gathered keys and values
RehashReinsert ==
  /\ RehashAt("reinsert")
  /\ \E r \in InsertImpl(Cur, run.keys, n_values_, run.vals) :
       Install(r.S)
  /\ run' = [run EXCEPT !.fresh = (run.store = "new" /\ ActiveSlots(Cur) = {}
                                     /\ heap_top_ = 0),
                        !.read_freed = @ \/ (run.store = "freed"),
                        !.log = Append(@, "reinsert")]
  /\ UNCHANGED <<last, pre, history, owned>>

\* Rehash returns, or the process has died in it
EndRehash ==
  /\ run.op = "Rehash"
  /\ fatal \/ Len(run.log) = Len(RehashOrder(run.count))
  /\ last' = Call("Rehash", << >>, 0, << >>, << >>, << >>, run.buckets)
  /\ run' = NoRun
  /\ UNCHANGED <<mapvars, fatal, pre, history, owned>>

RehashStepsNext ==
  \/ ScanInsert
  \/ DoErase
  \/ BeginRehash
  \/ RehashCollect
  \/ RehashGather
  \/ RehashFree
  \/ RehashAllocate
  \/ RehashReinsert
  \/ EndRehash
  \/ Release

SpecRehashSteps == Init /\ [][RehashStepsNext]_vars

\* --------------------------------------------- AtomicFetchAddRelaxed (host)
\* Threads of the host call AtomicFetchAddRelaxed on one shared word.  A
\* uint32_t or uint64_t is kept as its 16-bit limbs, least significant
\* first, so that the wrap at 2^32 and 2^64 is computed and not assumed.
NumThreads == 2               \* threads sharing the word
MaxAtomicCalls == 2           \* calls of one thread
TwoTo16 == 65536

\* the word of `width` bits whose lowest limb is lo and whose other limbs
\* are all `rest`
Word(width, lo, rest) == [i \in 1..(width \div 16) |-> IF i = 1 THEN lo ELSE rest]

\* operands and initial contents: small ones and ones next to the wrap
AtomicVals(width) == {Word(width, 1, 0), Word(width, 2, 0), Word(width, TwoTo16 - 1, TwoTo16 - 1)}

AtomicInits(width) ==
  {Word(width, 0, 0), Word(width, TwoTo16 - 2, TwoTo16 - 1), Word(width, TwoTo16 - 3, 0)}

RECURSIVE AddLimbs(_, _, _, _)
AddLimbs(a, b, i, carry) ==
  IF i > Len(a) THEN << >>
  ELSE LET sum == a[i] + b[i] + carry
       IN  <<sum % TwoTo16>> \o AddLimbs(a, b, i + 1, sum \div TwoTo16)

\* unsigned addition of two words; the carry out of the top limb is dropped
AddWord(a, b) == AddLimbs(a, b, 1, 0)

\* AtomicFetchAddRelaxed(address, val) on the contents `word` of *address:
\* the previous contents are returned, the sum is stored
AtomicFetchAddRelaxed(word, val) == [ret |-> word, stored |-> AddWord(word, val)]

\* a fetch-and-add that adds to the contents it saw when it was called
LoadedAtCall(t) == run.thr[t].seen

\* the contents the read-modify-write of thread t operates on: those of the
\* word at the moment it executes
Loaded(t) == run.cell

AtomicInit ==
  LET T == Allocate(2, 1)
  IN  /\ capacity_ = T.capacity_
      /\ bucket_count_ = T.bucket_count_
      /\ heap_top_ = T.heap_top_
      /\ key_buf = T.key_buf
      /\ val_buf = T.val_buf
      /\ bucket_list_head_ = T.head
      /\ node_pool = T.pool
      /\ node_free = T.free
      /\ fatal = FALSE
      /\ last = NoCall
      /\ pre = T
      /\ history = [k \in Keys |-> "never"]
      /\ owned = Constructed
      /\ \E width \in {32, 64} :
           \E x \in AtomicInits(width) :
             run = [op |-> "AtomicFetchAddRelaxed", width |-> width,
                    init |-> x, cell |-> x, log |-> << >>,
                    thr |-> [t \in 1..NumThreads |->
                               [pc |-> "out", val |-> x, seen |-> x, calls |-> 0]]]

\* thread t calls AtomicFetchAddRelaxed(address, val)
AtomicCall ==
  /\ run.op = "AtomicFetchAddRelaxed"
  /\ \E t \in 1..NumThreads :
       /\ run.thr[t].pc = "out"
       /\ run.thr[t].calls < MaxAtomicCalls
       /\ \E val \in AtomicVals(run.width) :
            run' = [run EXCEPT !.thr[t] = [pc |-> "in", val |-> val, seen |-> run.cell,
                                           calls |-> @.calls + 1]]
  /\ UNCHANGED <<mapvars, fatal, last, pre, history, owned>>

\* the read-modify-write of thread t's call, and its return
AtomicReturn ==
  /\ run.op = "AtomicFetchAddRelaxed"
  /\ \E t \in 1..NumThreads :
       /\ run.thr[t].pc = "in"
       /\ LET r == AtomicFetchAddRelaxed(Loaded(t), run.thr[t].val)
          IN  run' = [run EXCEPT !.cell = r.stored,
                                 !.log = Append(@, [t |-> t, val |-> run.thr[t].val,
                                                    ret |-> r.ret]),
                                 !.thr[t].pc = "out"]
  /\ UNCHANGED <<mapvars, fatal, last, pre, history, owned>>

AtomicNext ==
  \/ AtomicCall
  \/ AtomicReturn

SpecAtomic == AtomicInit /\ [][AtomicNext]_vars

\* ------------------------------------------ Insert with any column count
MaxColumns == 2               \* most value columns a caller passes

\* Insert(input_keys, input_values_soa, ..) with input_values_soa.size()
\* anywhere in 0..MaxColumns; vals is the first column passed
DoInsertColumns ==
  /\ Idle
  /\ \E keys \in Batches :
       \E n_cols \in 0..MaxColumns :
         \E vals \in [1..Len(keys) -> Values] :
           \E r \in Insert(Cur, keys, n_cols, vals) :
             /\ WithinBounds(r.S)
             /\ Install(r.S)
             /\ last' = Call("Insert", keys, n_cols, vals, r.idx, r.mask, 0)
             /\ pre' = Cur
             /\ UNCHANGED <<run, owned>>
             /\ history' = [k \in Keys |-> IF k \in Range(keys) THEN "inserted" ELSE history[k]]

ColumnsNext ==
  \/ DoInsertColumns
  \/ DoErase
  \/ Release

SpecColumns == Init /\ [][ColumnsNext]_vars

\* ----------------------------------- Find and Erase into the caller's mask
\* The caller's output_masks buffer holds anything before the call; the
\* kernels set the mask of a key they find and write nothing for the others.

\* a call that launches its kernel on the buffer as the caller left it
cudaMemsetSkipped(buf) == buf

\* cudaMemset(output_masks, 0, sizeof(bool) * count)
cudaMemset(buf) == [i \in DOMAIN buf |-> FALSE]

\* Find(input_keys, output_buf_indices, output_masks, count) on a mask
\* buffer holding mask0
FindInto(S, keys, idx0, mask0) ==
  IF Len(keys) = 0 THEN [idx |-> [i \in 1..Len(keys) |-> idx0], mask |-> mask0]
  ELSE LET cleared == cudaMemset(mask0)
       IN  [idx |-> [i \in 1..Len(keys) |->
                       IF FindKernel(S, keys[i]).mask THEN FindKernel(S, keys[i]).idx
                       ELSE idx0],
            mask |-> [i \in 1..Len(keys) |->
                        IF FindKernel(S, keys[i]).mask THEN TRUE ELSE cleared[i]]]

\* Erase(input_keys, output_masks, count) on a mask buffer holding mask0
EraseInto(S, keys, mask0) ==
  IF Len(keys) = 0 THEN {[S |-> S, mask |-> mask0]}
  ELSE LET cleared == cudaMemset(mask0)
           P0 == EraseKernelPass0(S, keys)
       IN  {[S |-> EraseKernelPass1(S, P0, order, 1),
             mask |-> [i \in 1..Len(keys) |-> IF P0.mask[i] THEN TRUE ELSE cleared[i]]]
              : order \in Perms(Len(keys))}

\* the finished call `op` and what its mask buffer held before the call
CallInto(op, keys, idx, mask, mask0) ==
  [op |-> op, keys |-> keys, n_cols |-> 0, vals |-> << >>,
   idx |-> idx, mask |-> mask, buckets |-> 0, mask0 |-> mask0]

DoFindInto ==
  /\ Idle
  /\ \E keys \in Batches :
       \E mask0 \in [1..Len(keys) -> BOOLEAN] :
         LET r == FindInto(Cur, keys, STALE, mask0)
         IN  /\ last' = CallInto("Find", keys, r.idx, r.mask, mask0)
             /\ pre' = Cur
             /\ UNCHANGED <<mapvars, fatal, history, run, owned>>

DoEraseInto ==
  /\ Idle
  /\ \E keys \in Batches :
       \E mask0 \in [1..Len(keys) -> BOOLEAN] :
         \E r \in EraseInto(Cur, keys, mask0) :
           /\ Install(r.S)
           /\ last' = CallInto("Erase", keys, << >>, r.mask, mask0)
           /\ pre' = Cur
           /\ UNCHANGED <<run, owned>>
           /\ history' = [k \in Keys |->
                            IF k \in Range(keys) /\ SlotOf(Cur, k) # EMPTY
                            THEN "erased" ELSE history[k]]

MasksNext ==
  \/ ScanInsert
  \/ DoFindInto
  \/ DoEraseInto
  \/ Release

SpecMasks == Init /\ [][MasksNext]_vars

\* ------------------------------------------------- the life of a backend
\* Construction, Inserts (growing or not), Rehashes and Clears, destruction,
\* with the storage followed through every Allocate and Free.  (The other
\* specifications leave `owned` as the constructor set it.)

\* the Rehash inside the call that took S to T died while gathering, before
\* its Free
DiedGathering(S, T) == T = [S EXCEPT !.fatal = TRUE]

LifeInsert ==
  /\ Idle /\ ~owned.destroyed
  /\ \E keys \in Batches :
       LET grows == Size(Cur) + Len(keys) > capacity_
           vals == [i \in 1..Len(keys) |-> 1]
       IN  /\ grows => owned.allocs < MaxRebuilds
           /\ \E r \in Insert(Cur, keys, n_values_, vals) :
                /\ WithinBounds(r.S)
                /\ Install(r.S)
                /\ last' = Call("Insert", keys, n_values_, vals, r.idx, r.mask, 0)
                /\ pre' = Cur
                /\ owned' = IF Len(keys) = 0 THEN owned
                            ELSE IF ~grows THEN UseStorage(owned)
                            ELSE IF DiedGathering(Cur, r.S) THEN UseStorage(owned)
                            ELSE UseStorage(RehashStorage(owned, Size(Cur)))
                /\ UNCHANGED <<history, run>>

LifeRehash ==
  /\ Idle /\ ~owned.destroyed
  /\ owned.allocs < MaxRebuilds
  /\ \E buckets \in 1..MaxBuckets :
       \E T \in Rehash(Cur, buckets) :
         /\ WithinBounds(T)
         /\ Install(T)
         /\ last' = Call("Rehash", << >>, 0, << >>, << >>, << >>, buckets)
         /\ pre' = Cur
         /\ owned' = IF DiedGathering(Cur, T) THEN UseStorage(owned)
                     ELSE RehashStorage(owned, Size(Cur))
         /\ UNCHANGED <<history, run>>

LifeClear ==
  /\ Idle /\ ~owned.destroyed
  /\ Install(Clear(Cur))
  /\ last' = Call("Clear", << >>, 0, << >>, << >>, << >>, 0)
  /\ pre' = Cur
  /\ owned' = ClearStorage(owned)
  /\ UNCHANGED <<history, run>>

\* ~SlabHashBackend()
LifeDestroy ==
  /\ Idle /\ ~owned.destroyed
  /\ owned' = DestroyStorage(owned)
  /\ UNCHANGED <<mapvars, fatal, last, pre, history, run>>

LifeNext ==
  \/ LifeInsert
  \/ LifeRehash
  \/ LifeClear
  \/ LifeDestroy
  \/ Release

SpecLife == Init /\ [][LifeNext]_vars

\* ------------------------------------------------- chains, slots and nodes
Buckets(S) == 0..(S.bucket_count_ - 1)

\* the linked entries of S: <<bucket, position in the bucket's chain>>
AllEntries(S) ==
  UNION {{<<b, i>> : i \in {j \in 1..Len(ChainPos(S, b)) :
                              SlotAt(S, b, ChainPos(S, b)[j]) # EMPTY}}
           : b \in Buckets(S)}

\* slot index linked at entry e
EntrySlot(S, e) == SlotAt(S, e[1], ChainPos(S, e[1])[e[2]])

\* key stored for entry e
EntryKey(S, e) == S.key_buf[EntrySlot(S, e)]

\* the entries of S that hold key k
EntriesOf(S, k) == {e \in AllEntries(S) : EntryKey(S, e) = k}

C12_NoSharedSlot ==
  /\ \A e1, e2 \in AllEntries(Cur) :
       e1 # e2 => EntrySlot(Cur, e1) # EntrySlot(Cur, e2)
  /\ ((Returned("Insert") \/ Returned("Activate")) /\ ~Overflowed)
       => \A i \in 1..Len(last.keys) :
            SlotOf(pre, last.keys[i]) = EMPTY => last.idx[i] \notin ActiveSlots(pre)

C12_Witness ==
  /\ Returned("Insert") /\ Len(last.keys) = 1 /\ ~Overflowed
  /\ SlotOf(pre, last.keys[1]) = EMPTY
  /\ ActiveSlots(pre) # {}
  /\ last.mask[1]
  /\ Cardinality(ActiveSlots(Cur)) = 2

\* C13: in every reachable state every linked entry lies in the chain of
\* bucket hash(key) mod bucket_count_; and an Insert or Activate that did not
\* rehash, a Find and an Erase leave bucket_count_ and the place, slot and key
\* of every entry they did not erase as they were.
C13_KeyInItsBucket ==
  /\ \A e \in AllEntries(Cur) : Bucket(EntryKey(Cur, e), bucket_count_) = e[1]
  /\ (\/ (Returned("Insert") \/ Returned("Activate")) /\ ~Overflowed
      \/ Returned("Find")
      \/ Returned("Erase"))
       => /\ bucket_count_ = pre.bucket_count_
          /\ \A e \in AllEntries(pre) :
               (last.op = "Erase" /\ EntryKey(pre, e) \in Range(last.keys))
               \/ (/\ e \in AllEntries(Cur)
                   /\ EntrySlot(Cur, e) = EntrySlot(pre, e)
                   /\ EntryKey(Cur, e) = EntryKey(pre, e))

C13_Witness ==
  /\ Returned("Erase") /\ Len(last.keys) = 1 /\ last.mask[1]
  /\ \E e \in AllEntries(pre) :
       /\ EntryKey(pre, e) # last.keys[1]
       /\ e \in AllEntries(Cur)
       /\ Bucket(EntryKey(Cur, e), bucket_count_) = e[1]

C15_SlotOncePerChain ==
  \A b \in Buckets(Cur) :
    \A i, j \in 1..Len(ChainPos(Cur, b)) :
      (i # j /\ SlotAt(Cur, b, ChainPos(Cur, b)[i]) # EMPTY)
        => SlotAt(Cur, b, ChainPos(Cur, b)[i]) # SlotAt(Cur, b, ChainPos(Cur, b)[j])

C15_Witness ==
  /\ Returned("Insert")
  /\ \E k \in Range(last.keys) : SlotOf(pre, k) # EMPTY
  /\ \E b \in Buckets(Cur) :
       /\ Len(ChainRefs(Cur, b)) = 2
       /\ \A i \in 1..Len(ChainPos(Cur, b)) : SlotAt(Cur, b, ChainPos(Cur, b)[i]) # EMPTY

\* C16: a Find leaves every field of the map as it was: capacity_,
\* bucket_count_, heap top, key and value buffers, chains, node pool and free
\* list; it returns one index and one mask per key.
C16_FindReadOnly ==
  last.op = "Find"
    => /\ Cur = pre
       /\ Len(last.idx) = Len(last.keys) /\ Len(last.mask) = Len(last.keys)

C16_Witness ==
  /\ Returned("Find") /\ Len(last.keys) = 2
  /\ last.mask[1] /\ ~last.mask[2]
  /\ last.idx[1] = SlotOf(Cur, last.keys[1]) /\ last.idx[2] = STALE
  /\ Cur = pre

\* C17: an Insert, Activate, Find or Erase of N = 0 keys leaves the map as it
\* was (heap top, chains, capacity_, bucket_count_ and all the rest, so no
\* Rehash ran) and writes no output index or mask.
C17_EmptyBatchNoOp ==
  (last.op \in {"Insert", "Activate", "Find", "Erase"} /\ Len(last.keys) = 0)
    => Cur = pre /\ last.idx = << >> /\ last.mask = << >>

C17_Witness ==
  /\ Returned("Insert") /\ Len(last.keys) = 0
  /\ heap_top_ = capacity_
  /\ Cur = pre
  /\ AllEntries(Cur) # {}

\* C18: Activate(keys) ends as Insert(keys, no value columns) from the same
\* state ends: same masks, same indices, same map (chains, heap top, capacity_,
\* bucket_count_); and an Activate that did not rehash writes no value-buffer
\* cell.
C18_ActivateIsInsertNoValues ==
  last.op = "Activate"
    => /\ \E r \in Insert(pre, last.keys, 0, << >>) :
            r.S = Cur /\ r.idx = last.idx /\ r.mask = last.mask
       /\ ~Overflowed => val_buf = pre.val_buf

C18_Witness ==
  /\ Returned("Activate") /\ Len(last.keys) = 1 /\ ~Overflowed
  /\ SlotOf(pre, last.keys[1]) = EMPTY
  /\ last.mask[1] /\ SlotOf(Cur, last.keys[1]) = last.idx[1]
  /\ heap_top_ = pre.heap_top_ + 1
  /\ val_buf = pre.val_buf
  /\ \E k \in Keys : ValueOf(Cur, k) # UNINIT

\* smallest integer >= a / b, in exact arithmetic
ExactCeilDiv(a, b) == (a + b - 1) \div b

WantedIn(b) ==
  {k \in {EntryKey(pre, e) : e \in AllEntries(pre)} \cup Range(last.keys) :
     Bucket(k, pre.bucket_count_) = b}

\* C20: an Insert that finds no free slab node when it needs one ends the
\* call in the fatal error: a call whose bucket needs more lanes than the head
\* slab and the whole node pool hold is fatal, and a call that returned has
\* linked every key of its batch at the index it returned, mask set.
C20_ExhaustionIsFatal ==
  last.op = "Insert"
    => /\ (\E b \in Buckets(pre) : Cardinality(WantedIn(b)) > SlabCap * (1 + PoolSize))
            => fatal
       /\ ~fatal
            => \A i \in 1..Len(last.keys) :
                 /\ last.mask[i]
                 /\ \E e \in EntriesOf(Cur, last.keys[i]) : EntrySlot(Cur, e) = last.idx[i]

C20_Witness ==
  /\ last.op = "Insert" /\ fatal
  /\ node_free = {}
  /\ \E k \in Range(last.keys) : EntriesOf(Cur, k) = {}
  /\ \E b \in Buckets(pre) : Cardinality(WantedIn(b)) > SlabCap * (1 + PoolSize)

\* C23: BucketSizes returns bucket_count_ counts, and count b is the number
\* of live entries in the chain of bucket b.
C23_BucketSizesCountLive ==
  ~fatal
    => /\ DOMAIN BucketSizes(Cur) = Buckets(Cur)
       /\ \A b \in Buckets(Cur) :
            BucketSizes(Cur)[b] = Cardinality({e \in AllEntries(Cur) : e[1] = b})

\* C24: Clear leaves every bucket head all-empty, every slab node on the free
\* list and the heap top at 0; capacity_, bucket_count_ and the contents of
\* the key and value buffers are as before; and an Insert of up to capacity_
\* keys issued next leaves capacity_ and bucket_count_ as they are.
C24_ClearKeepsStorage ==
  last.op = "Clear"
    => /\ \A b \in Buckets(Cur) : bucket_list_head_[b] = EmptySlab
       /\ node_free = DOMAIN node_pool
       /\ heap_top_ = 0
       /\ capacity_ = pre.capacity_ /\ bucket_count_ = pre.bucket_count_
       /\ key_buf = pre.key_buf /\ val_buf = pre.val_buf
       /\ \A keys \in Batches :
            Len(keys) <= capacity_
              => \A r \in Insert(Cur, keys, n_values_, Tabulate([i \in 1..Len(keys) |-> 1])) :
                   r.S.capacity_ = capacity_ /\ r.S.bucket_count_ = bucket_count_

C24_Witness ==
  /\ last.op = "Clear"
  /\ pre.heap_top_ = pre.capacity_ /\ capacity_ = MaxCap
  /\ pre.free = {}
  /\ \E s \in DOMAIN key_buf : key_buf[s] # UNINIT
  /\ AllEntries(pre) # {} /\ AllEntries(Cur) = {}

\* C30: an Insert or Activate of N keys that returns leaves the heap top N
\* above where it was; the slot reserved for a key that was already linked is
\* not linked by the call; and Insert and Activate without rehash, Find and
\* Erase neither lower the heap top nor link a slot that was reserved and
\* unlinked before the call.
C30_HeapTopMonotone ==
  /\ (Returned("Insert") \/ Returned("Activate"))
       => /\ heap_top_ = pre.heap_top_ + Len(last.keys)
          /\ ~Overflowed
               => \A i \in 1..Len(last.keys) :
                    last.idx[i] # pre.heap_top_ + i - 1
                      => (pre.heap_top_ + i - 1) \notin ActiveSlots(Cur)
  /\ (\/ (Returned("Insert") \/ Returned("Activate")) /\ ~Overflowed
      \/ Returned("Find")
      \/ Returned("Erase"))
       => /\ heap_top_ >= pre.heap_top_
          /\ \A s \in 0..(pre.heap_top_ - 1) :
               s \notin ActiveSlots(pre) => s \notin ActiveSlots(Cur)

C30_Witness ==
  /\ Returned("Insert") /\ Len(last.keys) = 1 /\ ~Overflowed
  /\ SlotOf(pre, last.keys[1]) # EMPTY
  /\ last.idx[1] = SlotOf(pre, last.keys[1])
  /\ heap_top_ = pre.heap_top_ + 1
  /\ pre.heap_top_ \notin ActiveSlots(Cur)

RECURSIVE MulDiv(_, _, _)
\* <<quotient, remainder>> of a * b divided by c, in exact arithmetic
MulDiv(a, b, c) ==
  IF b = 0 THEN <<0, 0>>
  ELSE LET h == MulDiv(a, b \div 2, c)
           q2 == 2 * h[1] + (2 * h[2]) \div c
           r2 == (2 * h[2]) % c
       IN  IF b % 2 = 0 THEN <<q2, r2>>
           ELSE <<q2 + (a \div c) + ((r2 + (a % c)) \div c), (r2 + (a % c)) % c>>

\* smallest integer >= a * b / c, in exact arithmetic
ExactCeilMulDiv(a, b, c) ==
  MulDiv(a, b, c)[1] + (IF MulDiv(a, b, c)[2] = 0 THEN 0 ELSE 1)

\* C26: a step that reserves N slots (an Insert of N keys) rehashes exactly
\* when Size() + N > capacity_, and then to
\* max(2 * bucket_count_, ceil((Size() + N) / (capacity_ / bucket_count_)))
\* buckets; otherwise bucket_count_ and capacity_ stay as they are.
C26_RehashExactlyOnOverflow ==
  [][heap_top_' > heap_top_
       => IF heap_top_' > capacity_
          THEN bucket_count_' = Max(2 * bucket_count_,
                                    ExactCeilMulDiv(heap_top_', bucket_count_, capacity_))
          ELSE bucket_count_' = bucket_count_ /\ capacity_' = capacity_]_vars

\* The compare-and-swap loops of Pass1 terminate: under fair scheduling an
\* Insert in flight that needs no growth leads to the call being over, either
\* with the process dead in the fatal error of an exhausted node pool or with
\* every key of the batch linked at the index returned for it, mask set.
InsertStepsComplete ==
  (run.op = "Insert")
    ~> (/\ run.op = "none" /\ last.op = "Insert"
        /\ \/ fatal
           \/ \A i \in 1..Len(last.keys) :
                last.mask[i] /\ SlotOf(Cur, last.keys[i]) = last.idx[i])

\* a state in which a thread lost a compare-and-swap and every thread has
\* still linked its key
InsertStepsRetried ==
  /\ run.op = "Insert" /\ ~fatal
  /\ run.lost # {}
  /\ \A i \in Threads(run) :
       run.pc[i] = "done" /\ run.mask[i] /\ SlotOf(Cur, run.keys[i]) = run.idx[i]

\* C21: an Insert call that is over has returned (the process is alive) with
\* every key of its batch linked, mask set, unless the node pool is exhausted.
C21_InsertReturnsAllLive ==
  (last.op = "Insert" /\ node_free # {})
    => /\ ~fatal
       /\ \A i \in 1..Len(last.keys) :
            last.mask[i] /\ SlotOf(Cur, last.keys[i]) = last.idx[i]

\* C27: while an Insert is in flight, a thread has run Pass0 only if the heap
\* top already stands at prev_heap_top + N; a thread has run a step of Pass1
\* only if every thread has finished Pass0 (every key is in its reserved
\* slot); a thread has run Pass2 only if every thread has finished Pass1, and
\* then every set mask goes with the index at which the key is linked, and
\* the value at that index is the value of a thread holding that index.
C27_PhasesInOrder ==
  run.op = "Insert"
    => /\ run.p0 # {} => heap_top_ = run.prev + Len(run.keys)
       /\ run.p1 # {}
            => /\ run.p0 = Threads(run)
               /\ \A i \in Threads(run) : key_buf[run.prev + i - 1] = run.keys[i]
       /\ run.p2 # {}
            => /\ \A i \in Threads(run) : run.pc[i] = "done"
               /\ \A i \in run.p2 :
                    run.mask[i]
                      => /\ SlotOf(Cur, run.keys[i]) = run.idx[i]
                         /\ val_buf[run.idx[i]] \in
                              {run.vals[j] : j \in {h \in run.p2 : run.idx[h] = run.idx[i]}}

C27_Witness ==
  /\ run.op = "Insert" /\ Len(run.keys) = 2
  /\ run.lost # {}
  /\ run.p2 # {} /\ run.p2 # Threads(run)
  /\ run.idx[1] # run.idx[2]

\* C28: while an Erase is in flight a thread has run Pass1 only if every
\* thread has finished Pass0; and when the call is over every key of the
\* batch that was linked has mask = true, no key of the batch is linked, and
\* every entry of a key not in the batch is where it was.
C28_EraseTwoPhases ==
  /\ (run.op = "Erase" /\ run.p1 # {}) => run.p0 = Threads(run)
  /\ (last.op = "Erase" /\ run.op = "none")
       => /\ \A i \in 1..Len(last.keys) :
               /\ last.mask[i] <=> SlotOf(pre, last.keys[i]) # EMPTY
               /\ SlotOf(Cur, last.keys[i]) = EMPTY
          /\ \A e \in AllEntries(pre) :
               EntryKey(pre, e) \notin Range(last.keys)
                 => /\ e \in AllEntries(Cur)
                    /\ EntrySlot(Cur, e) = EntrySlot(pre, e)
                    /\ EntryKey(Cur, e) = EntryKey(pre, e)

C28_Witness ==
  /\ last.op = "Erase" /\ run.op = "none"
  /\ Len(last.keys) = 2 /\ last.keys[1] # last.keys[2]
  /\ last.mask[1] /\ last.mask[2]
  /\ Bucket(last.keys[1], bucket_count_) = Bucket(last.keys[2], bucket_count_)
  /\ pre.free = {} /\ node_free # {}
  /\ SlotOf(Cur, last.keys[1]) = EMPTY /\ SlotOf(Cur, last.keys[2]) = EMPTY

\* C22: when GetActiveIndices has returned, in whatever order the buckets'
\* threads took their steps, the count returned is the number of linked
\* slots, the first `count` positions of the output hold the linked slots,
\* each of them once, and the map is as it was.  (In the witness the thread
\* of the higher bucket took its position first.)
C22_ActiveIndicesExact ==
  (last.op = "GetActiveIndices" /\ run.op = "none")
    => /\ last.ret = Cardinality(ActiveSlots(pre))
       /\ {last.idx[p] : p \in 1..last.ret} = ActiveSlots(pre)
       /\ \A p, q \in 1..last.ret : last.idx[p] = last.idx[q] => p = q
       /\ Cur = pre

C22_Witness ==
  /\ last.op = "GetActiveIndices" /\ run.op = "none"
  /\ last.ret = 2
  /\ Bucket(key_buf[last.idx[1]], bucket_count_) > Bucket(key_buf[last.idx[2]], bucket_count_)

\* the prefixes of a sequence
Prefixes(q) == {SubSeq(q, 1, n) : n \in 0..Len(q)}

\* C29: while a Rehash is in flight its statements have run in the order
\* collect, gather, free, allocate, reinsert (free, allocate for an empty
\* heap): the keys and values are copied out before the storage is freed, the
\* new storage is allocated after the old is freed, no statement has read
\* freed storage, the new map holds no entry until the re-insertion, which
\* starts on an empty map with heap top 0, and afterwards every linked key
\* is one of the gathered keys.
C29_RehashStepsInOrder ==
  run.op = "Rehash"
    => /\ run.log \in Prefixes(IF run.count > 0
                                THEN <<"collect", "gather", "free", "allocate", "reinsert">>
                                ELSE <<"free", "allocate">>)
       /\ ~run.read_freed
       /\ (run.store # "old" /\ run.count > 0) => Len(run.keys) = run.count
       /\ (run.store = "new") <=> ("allocate" \in Range(run.log))
       /\ (run.store = "new" /\ "reinsert" \notin Range(run.log))
            => ActiveSlots(Cur) = {} /\ heap_top_ = 0
       /\ "reinsert" \in Range(run.log)
            => /\ run.fresh
               /\ \A sl \in ActiveSlots(Cur) : key_buf[sl] \in Range(run.keys)

C29_Witness ==
  /\ run.op = "Rehash" /\ ~fatal
  /\ run.log = <<"collect", "gather", "free", "allocate", "reinsert">>
  /\ Cardinality(ActiveSlots(pre)) = 2
  /\ Cardinality(ActiveSlots(Cur)) = 2
  /\ bucket_count_ # pre.bucket_count_

\* limb i of x + the sum of the first n operands of the log, and the carry
\* it passes on: the columns are summed as integers
RECURSIVE SumTo(_, _, _)
SumTo(n, vals, i) == IF n = 0 THEN 0 ELSE vals[n][i] + SumTo(n - 1, vals, i)

RECURSIVE ColumnSum(_, _, _, _)
ColumnSum(x, vals, n, i) ==
  x[i] + (IF i = 1 THEN 0 ELSE ColumnSum(x, vals, n, i - 1) \div TwoTo16)
    + SumTo(n, vals, i)

\* x + vals[1] + .. + vals[n] modulo 2^(16 * Len(x))
SumWords(x, vals, n) == [i \in 1..Len(x) |-> ColumnSum(x, vals, n, i) % TwoTo16]

\* C25: the calls of AtomicFetchAddRelaxed on one word, made by several
\* threads, have taken effect one at a time in the order of the log: each
\* returned the initial contents plus the operands of the calls before it,
\* and the word holds the initial contents plus the sum of all operands,
\* modulo 2^32 for a uint32_t and 2^64 for a uint64_t.
C25_FetchAddAtomic ==
  run.op = "AtomicFetchAddRelaxed"
    => LET vals == [j \in 1..Len(run.log) |-> run.log[j].val]
       IN  /\ Len(run.cell) = run.width \div 16
           /\ \A j \in 1..Len(run.log) :
                run.log[j].ret = SumWords(run.init, vals, j - 1)
           /\ run.cell = SumWords(run.init, vals, Len(run.log))

C25_Witness ==
  /\ run.op = "AtomicFetchAddRelaxed" /\ run.width = 64
  /\ Len(run.log) = 4
  /\ run.log[1].t # run.log[2].t
  /\ run.thr[run.log[2].t].seen # run.log[2].ret
  /\ \E j \in 1..3 : run.log[j].ret[4] = TwoTo16 - 1 /\ run.log[j + 1].ret[4] = 0

C32_EraseKeepsHeapTop ==
  /\ last.op = "Erase"
       => /\ heap_top_ = pre.heap_top_
          /\ Size(Cur) = Size(pre)
          /\ \A sl \in ActiveSlots(pre) \ ActiveSlots(Cur) : sl < heap_top_
  /\ ((Returned("Insert") \/ Returned("Activate")) /\ ~Overflowed)
       => \A i \in 1..Len(last.keys) :
            (last.mask[i] /\ SlotOf(pre, last.keys[i]) = EMPTY)
              => /\ last.idx[i] >= pre.heap_top_
                 /\ last.idx[i] \notin 0..(pre.heap_top_ - 1)

C32_Witness ==
  /\ Returned("Insert") /\ ~Overflowed
  /\ pre.heap_top_ = 1 /\ ActiveSlots(pre) = {}
  /\ Len(last.keys) = 1 /\ pre.key_buf[0] = last.keys[1]
  /\ last.mask[1] /\ last.idx[1] = 1
  /\ SlotOf(Cur, last.keys[1]) = 1

\* C33: an Insert or Activate that does not rehash, a Find and an Erase leave
\* every key that is live and not in the batch at its slot index, with its
\* stored value.
C33_SlotsStable ==
  (\/ (Returned("Insert") \/ Returned("Activate")) /\ ~Overflowed
   \/ Returned("Find")
   \/ Returned("Erase"))
    => \A k \in Keys \ Range(last.keys) :
         SlotOf(pre, k) # EMPTY
           => /\ SlotOf(Cur, k) = SlotOf(pre, k)
              /\ ValueOf(Cur, k) = ValueOf(pre, k)
              /\ key_buf[SlotOf(Cur, k)] = k

C33_Witness ==
  /\ Returned("Erase") /\ Len(last.keys) = 1 /\ last.mask[1]
  /\ \E k \in Keys \ Range(last.keys) :
       /\ Bucket(k, bucket_count_) = Bucket(last.keys[1], bucket_count_)
       /\ SlotOf(pre, k) # EMPTY
       /\ SlotOf(pre, k) > SlotOf(pre, last.keys[1])
       /\ SlotOf(Cur, k) = SlotOf(pre, k)
       /\ ValueOf(Cur, k) = 2

\* C34: an Insert of pairwise-distinct keys, none of them live before, that
\* returns, has in every order of its threads' steps given key i the slot
\* prev_heap_top + i (counted from 0) with mask = true and its own value,
\* left every other key's mapping as it was and advanced the heap top by N:
\* the mappings after the call are fixed by the map before and the batch.
C34_ResultIndependentOfSchedule ==
  (/\ last.op = "Insert" /\ run.op = "none" /\ ~fatal
   /\ Distinct(last.keys) /\ AllAbsentBefore)
    => /\ \A i \in 1..Len(last.keys) :
            /\ last.mask[i]
            /\ last.idx[i] = pre.heap_top_ + i - 1
            /\ SlotOf(Cur, last.keys[i]) = pre.heap_top_ + i - 1
            /\ val_buf[pre.heap_top_ + i - 1] = last.vals[i]
       /\ \A k \in MixedKeys \ Range(last.keys) :
            /\ SlotOf(Cur, k) = SlotOf(pre, k)
            /\ SlotOf(pre, k) # EMPTY => val_buf[SlotOf(pre, k)] = pre.val_buf[SlotOf(pre, k)]
       /\ heap_top_ = pre.heap_top_ + Len(last.keys)

\* two threads of one bucket: the second key of the batch was linked first
C34_Witness ==
  /\ last.op = "Insert" /\ run.op = "none" /\ ~fatal
  /\ Len(last.keys) = 2 /\ Distinct(last.keys) /\ AllAbsentBefore
  /\ Bucket(last.keys[1], bucket_count_) = Bucket(last.keys[2], bucket_count_)
  /\ Lookup(Cur, last.keys[2]) < Lookup(Cur, last.keys[1])
  /\ last.idx[1] < last.idx[2]

\* C35: in every state between two calls (the process alive, no call in
\* flight, the caller's buffers dropped) Size(), the heap top, is the number
\* of slots linked in the bucket chains, the count GetActiveIndices returns.
C35_SizeIsLiveCount ==
  Idle => Size(Cur) = Cardinality(ActiveSlots(Cur))

\* C36: an Insert given a number of value columns that is neither 0 nor
\* n_values_ ends as Activate of the same keys ends from the same state: same
\* masks, same indices, same map, alive or dead alike; and when it did not
\* rehash, no cell of the value buffer was written.
C36_WrongColumnsAsActivate ==
  (last.op = "Insert" /\ last.n_cols \notin {0, n_values_})
    => /\ \E r \in Activate(pre, last.keys) :
            r.S = Cur /\ r.idx = last.idx /\ r.mask = last.mask
       /\ ~Overflowed => val_buf = pre.val_buf /\ ~fatal

C36_Witness ==
  /\ Returned("Insert") /\ last.n_cols = 2 /\ ~Overflowed
  /\ Len(last.keys) = 2 /\ last.keys[1] # last.keys[2]
  /\ SlotOf(pre, last.keys[1]) = EMPTY /\ SlotOf(pre, last.keys[2]) = EMPTY
  /\ last.mask[1] /\ last.mask[2]
  /\ SlotOf(Cur, last.keys[1]) = last.idx[1] /\ SlotOf(Cur, last.keys[2]) = last.idx[2]
  /\ ValueOf(Cur, last.keys[1]) = UNINIT /\ ValueOf(Cur, last.keys[2]) = UNINIT
  /\ val_buf = pre.val_buf

\* C37: a step that reserves slots (an Insert or Activate of N > 0 keys)
\* lowers neither bucket_count_ nor capacity_; and when it rehashed (Size() +
\* N exceeded capacity_), bucket_count_ has at least doubled and the new
\* capacity_ is at least Size() + N, the heap top after the reservation.
C37_InsertNeverShrinks ==
  [][heap_top_' > heap_top_
       => /\ bucket_count_' >= bucket_count_
          /\ capacity_' >= capacity_
          /\ heap_top_' > capacity_
               => /\ bucket_count_' >= 2 * bucket_count_
                  /\ capacity_' >= heap_top_'
    ]_vars

\* C38: after a Find or an Erase of N > 0 keys, whatever the mask buffer held
\* before the call, the mask of a key is true exactly if the key was linked
\* when the call started: a key that is not found has mask false, and a true
\* mask was set by this call's kernel.
C38_MaskClearedFirst ==
  (last.op \in {"Find", "Erase"} /\ Len(last.keys) > 0)
    => /\ Len(last.mask) = Len(last.keys)
       /\ \A i \in 1..Len(last.keys) :
            last.mask[i] <=> (SlotOf(pre, last.keys[i]) # EMPTY)

C38_Witness ==
  /\ Returned("Find") /\ Len(last.keys) = 2
  /\ last.mask0 = <<TRUE, TRUE>>
  /\ SlotOf(pre, last.keys[1]) # EMPTY /\ SlotOf(pre, last.keys[2]) = EMPTY
  /\ last.mask = <<TRUE, FALSE>>

====
